---- MODULE Spec2Model ----
(***************************************************************************)
(* The real-estate assistant: the turn loop of RealEstateAgent (a          *)
(* LangGraph StateGraph over State with a MemorySaver checkpointer), the   *)
(* chat node, the tool node, and the tools' stores.                        *)
(***************************************************************************)
EXTENDS Integers, Sequences, FiniteSets, TLC

(***************************************************************************)
(* Bounds of the model.                                                    *)
(***************************************************************************)
\* user messages handled over all sessions
MaxMessages == 2
\* tool batches a freely choosing reasoning step requests per user message
MaxToolRounds == 1
\* calls made on the tools that go to the store
MaxCalls == 3
\* readings of datetime.now() that differ
MaxClock == 1
\* entries of a location list and of a required-feature list
MaxListLen == 2
\* fields of a PropertySearchCriteria set at the same time
MaxConstraints == 3
\* parts of a feedback text
MaxPhrases == 2
\* calls of refine_search_criteria on the same criteria object
MaxRefines == 2
\* words of a message given to classify_user_intent
MaxWords == 3

(***************************************************************************)
(* Program constants.                                                      *)
(***************************************************************************)
\* graph.ainvoke is given no "recursion_limit": the graph runs at most 25
\* node steps per invocation and then raises GraphRecursionError.
RecursionLimit == 25

\* thread_id values a caller passes (the CLI passes "1"), "no thread_id", and
\* the sessions created by calls that pass none (a fresh uuid4)
NamedThreads == {1, 2}
UuidThreads == {101}
Threads == NamedThreads \cup UuidThreads

Texts == {"3 bed flat in Karachi for 2.5 crores with parking"}

VARIABLES
    memory,       \* MemorySaver: thread -> State.messages of the last checkpoint
    stage,        \* MemorySaver: thread -> State.conversation_stage
    pc,           \* thread -> where process_message stands
    step,         \* thread -> node steps run by the current graph.ainvoke
    rounds,       \* thread -> tool batches requested for the current message
    response,     \* thread -> <<>> or <<the message process_message returned>>
    llmInput,     \* thread -> the messages last handed to llm.ainvoke
    llm,          \* the reasoning capability given to RealEstateAgent(llm)
    preferences,  \* customer_preferences collection: customer_id -> <<>> or <<payload>>
    favorites,    \* favorites collection: the documents, in insertion order
    clock,        \* datetime.now()
    favCalls,     \* calls made on the tools that go to the store so far
    lastOp,       \* the last favorites call that returned: arguments and result
    pending,      \* session -> its save_to_favorites call between find_one and insert_one
    lastRead,     \* the last get_favorites / get_favorites_summary call that returned
    lastPref,     \* the last save_customer_preferences_tool call that returned
    lastSaved,    \* user -> <<>> or <<the payload of the user's last successful save>>
    catalog,      \* search: the properties searched
    search_criteria,  \* search: the PropertySearchCriteria of the last search
    found,        \* search: the PropertySearchResult of the last search
    narrowed,     \* search: how the criteria last changed, and the count before
    heap,         \* refinement: the list objects, by reference
    current_criteria, \* refinement: the caller's PropertySearchCriteria object
    user_feedback,    \* refinement: the feedback text, phrase by phrase
    refined,      \* refinement: what the calls made so far returned
    user_message, \* intent: the message, word by word
    keyword_scores, \* intent: <<>> or <<the scores dict of the call>>
    intent        \* intent: <<>> or <<the IntentClassification returned>>

orchVars == <<memory, stage, pc, step, rounds, response, llmInput, llm>>
favVars == <<favorites, clock, favCalls, lastOp, pending>>
storeVars == <<lastRead, lastPref, lastSaved>>
searchVars == <<catalog, search_criteria, found, narrowed>>
refineVars == <<heap, current_criteria, user_feedback, refined>>
intentVars == <<user_message, keyword_scores, intent>>
pureVars == <<searchVars, refineVars, intentVars>>
vars == <<memory, stage, pc, step, rounds, response, llmInput, llm, preferences,
          favorites, clock, favCalls, lastOp, pending, lastRead, lastPref,
          lastSaved, catalog, search_criteria, found, narrowed, heap,
          current_criteria, user_feedback, refined, user_message, keyword_scores, intent>>

(***************************************************************************)
(* Messages (langchain_core.messages).                                     *)
(***************************************************************************)
\* the arguments of a tool-invocation request
Args(criteria, preference) == [criteria |-> criteria, user_preference |-> preference]
NoArgs == Args(<<>>, "none")

\* message content: text, and for a tool result its status and payload
Content(text, status, result) == [text |-> text, status |-> status, result |-> result]
Text(text) == Content(text, "none", <<>>)
NoCallId == <<0, 0, 0>>

Msg(type, id, content, calls, callId, name, status) ==
    [type |-> type, id |-> id, content |-> content, tool_calls |-> calls,
     tool_call_id |-> callId, name |-> name, status |-> status]

HumanMessage(id, text) == Msg("human", id, Text(text), <<>>, NoCallId, "none", "none")
SystemMessage(text) == Msg("system", <<0, 0>>, Text(text), <<>>, NoCallId, "none", "none")
AIMessage(id, text, calls) == Msg("ai", id, Text(text), calls, NoCallId, "none", "none")
ToolMessage(id, payload, callId, name, status) ==
    Msg("tool", id, payload, <<>>, callId, name, status)

ToolCall(id, name, args) == [id |-> id, name |-> name, args |-> args]

\* uuid4 message identifiers: never equal to an identifier already in use
FreshId(t, messages, k) == <<t, Len(messages) + k>>

RECURSIVE IndexOfId(_, _, _)
IndexOfId(messages, id, i) ==
    IF i > Len(messages) THEN 0
    ELSE IF messages[i].id = id THEN i
    ELSE IndexOfId(messages, id, i + 1)

\* one message merged into the list: same id replaces in place, else appended
MergeOne(left, m) ==
    LET i == IndexOfId(left, m.id, 1)
    IN  IF i = 0 THEN Append(left, m) ELSE [left EXCEPT ![i] = m]

RECURSIVE MergeAll(_, _)
MergeAll(left, right) ==
    IF right = <<>> THEN left
    ELSE MergeAll(MergeOne(left, Head(right)), Tail(right))

\* a State whose messages field had no reducer: the update overwrites
add_messages_overwrite(left, right) == right

\* the reducer of State.messages
add_messages(left, right) == MergeAll(left, right)

IsPrefix(s, t) == Len(s) <= Len(t) /\ SubSeq(t, 1, Len(s)) = s

(***************************************************************************)
(* Tools.                                                                  *)
(***************************************************************************)
\* self.tools, the list given to llm.bind_tools and to ToolNode
RegisteredTools == {"save_customer_preferences_tool", "kick_ass_tool"}

\* the UserPreferences values the model passes, by name
PrefPayloads == {"prefsA", "prefsB"}
\* the customer_id the tool files every record under
CustomerId == 1
\* the users on whose behalf the tool is called; a user's record is the
\* document with his customer_id
Customers == {1, 2}

\* asdict(user_preference): every field of the dataclass, None as <<>>
asdict(payload) ==
    IF payload = "prefsA"
    THEN [property_type |-> "apartment", locations |-> <<"Karachi">>,
          budget |-> [min |-> 100, max |-> 250], bedrooms |-> <<"3">>,
          bathrooms |-> <<"2">>, must_have_features |-> << <<"parking">> >>]
    ELSE [property_type |-> "house", locations |-> <<"Lahore">>,
          budget |-> [min |-> 200, max |-> 450], bedrooms |-> <<>>,
          bathrooms |-> <<>>, must_have_features |-> <<>>]

\* collection.update_one({"customer_id": c}, {"$set": {"preferences": d}},
\* upsert=True): the matching document gets d as its whole "preferences"
\* field; with no matching document one is inserted
UpdateOneSet(store, customer_id, d) ==
    IF store[customer_id] = <<>>
    THEN [store EXCEPT ![customer_id] =
              <<[customer_id |-> customer_id, preferences |-> d]>>]
    ELSE [store EXCEPT ![customer_id] = <<[@[1] EXCEPT !.preferences = d]>>]

\* save_customer_preferences_tool: upsert under the fixed customer_id; a
\* failure of the store is returned as status "error"
SavePreferencesResult(up) ==
    IF up THEN [status |-> "success", customer_id |-> CustomerId]
    ELSE [status |-> "error", customer_id |-> CustomerId]

SavePreferencesStore(store, payload, up) ==
    IF up THEN UpdateOneSet(store, CustomerId, asdict(payload)) ELSE store

(***************************************************************************)
(* Strings.  A Python str is the sequence of its characters; Chars gives   *)
(* the characters of each string literal the model uses.                   *)
(***************************************************************************)
Chars(s) ==
    CASE s = "apartment" -> <<"a", "p", "a", "r", "t", "m", "e", "n", "t">>
      [] s = "house" -> <<"h", "o", "u", "s", "e">>
      [] s = "bungalow" -> <<"b", "u", "n", "g", "a", "l", "o", "w">>
      [] s = "Lahore" -> <<"L", "a", "h", "o", "r", "e">>
      [] s = "Karachi" -> <<"K", "a", "r", "a", "c", "h", "i">>
      [] s = "Islamabad" -> <<"I", "s", "l", "a", "m", "a", "b", "a", "d">>
      [] s = "DHA Phase 5" -> <<"D", "H", "A", " ", "P", "h", "a", "s", "e", " ", "5">>
      [] s = "Gulshan Iqbal" -> <<"G", "u", "l", "s", "h", "a", "n", " ", "I", "q", "b", "a", "l">>
      [] s = "F-8" -> <<"F", "-", "8">>
      [] s = "Clifton" -> <<"C", "l", "i", "f", "t", "o", "n">>
      [] s = "DHA Phase 2" -> <<"D", "H", "A", " ", "P", "h", "a", "s", "e", " ", "2">>
      [] s = "parking" -> <<"p", "a", "r", "k", "i", "n", "g">>
      [] s = "balcony" -> <<"b", "a", "l", "c", "o", "n", "y">>
      [] s = "garden" -> <<"g", "a", "r", "d", "e", "n">>
      [] s = "security" -> <<"s", "e", "c", "u", "r", "i", "t", "y">>
      [] s = "gym" -> <<"g", "y", "m">>
      [] s = "pool" -> <<"p", "o", "o", "l">>
      [] s = "elevator" -> <<"e", "l", "e", "v", "a", "t", "o", "r">>
      [] s = "Parking" -> <<"P", "a", "r", "k", "i", "n", "g">>
      [] s = "DHA" -> <<"D", "H", "A">>
      [] s = "flat" -> <<"f", "l", "a", "t">>
      [] s = "karachi" -> <<"k", "a", "r", "a", "c", "h", "i">>
      [] s = "a" -> <<"a">>
      [] s = "" -> <<>>
      [] s = "jacuzzi" -> <<"j", "a", "c", "u", "z", "z", "i">>
      [] s = "too expensive" -> <<"t", "o", "o", " ", "e", "x", "p", "e", "n", "s", "i", "v", "e">>
      [] s = "price too high" -> <<"p", "r", "i", "c", "e", " ", "t", "o", "o", " ", "h", "i", "g", "h">>
      [] s = "over budget" -> <<"o", "v", "e", "r", " ", "b", "u", "d", "g", "e", "t">>
      [] s = "reduce price" -> <<"r", "e", "d", "u", "c", "e", " ", "p", "r", "i", "c", "e">>
      [] s = "increase budget" -> <<"i", "n", "c", "r", "e", "a", "s", "e", " ", "b", "u", "d", "g", "e", "t">>
      [] s = "higher price" -> <<"h", "i", "g", "h", "e", "r", " ", "p", "r", "i", "c", "e">>
      [] s = "more expensive" -> <<"m", "o", "r", "e", " ", "e", "x", "p", "e", "n", "s", "i", "v", "e">>
      [] s = "more bedrooms" -> <<"m", "o", "r", "e", " ", "b", "e", "d", "r", "o", "o", "m", "s">>
      [] s = "need more rooms" -> <<"n", "e", "e", "d", " ", "m", "o", "r", "e", " ", "r", "o", "o", "m", "s">>
      [] s = "bigger house" -> <<"b", "i", "g", "g", "e", "r", " ", "h", "o", "u", "s", "e">>
      [] s = "fewer bedrooms" -> <<"f", "e", "w", "e", "r", " ", "b", "e", "d", "r", "o", "o", "m", "s">>
      [] s = "smaller house" -> <<"s", "m", "a", "l", "l", "e", "r", " ", "h", "o", "u", "s", "e">>
      [] s = "less rooms" -> <<"l", "e", "s", "s", " ", "r", "o", "o", "m", "s">>
      [] s = "different location" -> <<"d", "i", "f", "f", "e", "r", "e", "n", "t", " ", "l", "o", "c", "a", "t", "i", "o", "n">>
      [] s = "other area" -> <<"o", "t", "h", "e", "r", " ", "a", "r", "e", "a">>
      [] s = "change location" -> <<"c", "h", "a", "n", "g", "e", " ", "l", "o", "c", "a", "t", "i", "o", "n">>
      [] s = "need parking" -> <<"n", "e", "e", "d", " ", "p", "a", "r", "k", "i", "n", "g">>
      [] s = "must have parking" -> <<"m", "u", "s", "t", " ", "h", "a", "v", "e", " ", "p", "a", "r", "k", "i", "n", "g">>
      [] s = "need balcony" -> <<"n", "e", "e", "d", " ", "b", "a", "l", "c", "o", "n", "y">>
      [] s = "must have balcony" -> <<"m", "u", "s", "t", " ", "h", "a", "v", "e", " ", "b", "a", "l", "c", "o", "n", "y">>
      [] s = "need garden" -> <<"n", "e", "e", "d", " ", "g", "a", "r", "d", "e", "n">>
      [] s = "must have garden" -> <<"m", "u", "s", "t", " ", "h", "a", "v", "e", " ", "g", "a", "r", "d", "e", "n">>
      [] s = "villa" -> <<"v", "i", "l", "l", "a">>
      [] s = "Over Budget" -> <<"O", "v", "e", "r", " ", "B", "u", "d", "g", "e", "t">>
      [] s = "looks nice" -> <<"l", "o", "o", "k", "s", " ", "n", "i", "c", "e">>
      [] s = " and " -> <<" ", "a", "n", "d", " ">>
      [] s = "buy" -> <<"b", "u", "y">>
      [] s = "purchase" -> <<"p", "u", "r", "c", "h", "a", "s", "e">>
      [] s = "looking for" -> <<"l", "o", "o", "k", "i", "n", "g", " ", "f", "o", "r">>
      [] s = "need" -> <<"n", "e", "e", "d">>
      [] s = "want" -> <<"w", "a", "n", "t">>
      [] s = "searching for" -> <<"s", "e", "a", "r", "c", "h", "i", "n", "g", " ", "f", "o", "r">>
      [] s = "find me" -> <<"f", "i", "n", "d", " ", "m", "e">>
      [] s = "show me" -> <<"s", "h", "o", "w", " ", "m", "e">>
      [] s = "i want" -> <<"i", " ", "w", "a", "n", "t">>
      [] s = "i need" -> <<"i", " ", "n", "e", "e", "d">>
      [] s = "looking to buy" -> <<"l", "o", "o", "k", "i", "n", "g", " ", "t", "o", " ", "b", "u", "y">>
      [] s = "interested in" -> <<"i", "n", "t", "e", "r", "e", "s", "t", "e", "d", " ", "i", "n">>
      [] s = "considering" -> <<"c", "o", "n", "s", "i", "d", "e", "r", "i", "n", "g">>
      [] s = "planning to buy" -> <<"p", "l", "a", "n", "n", "i", "n", "g", " ", "t", "o", " ", "b", "u", "y">>
      [] s = "sell" -> <<"s", "e", "l", "l">>
      [] s = "selling" -> <<"s", "e", "l", "l", "i", "n", "g">>
      [] s = "put on market" -> <<"p", "u", "t", " ", "o", "n", " ", "m", "a", "r", "k", "e", "t">>
      [] s = "list" -> <<"l", "i", "s", "t">>
      [] s = "advertise" -> <<"a", "d", "v", "e", "r", "t", "i", "s", "e">>
      [] s = "get rid of" -> <<"g", "e", "t", " ", "r", "i", "d", " ", "o", "f">>
      [] s = "dispose of" -> <<"d", "i", "s", "p", "o", "s", "e", " ", "o", "f">>
      [] s = "unload" -> <<"u", "n", "l", "o", "a", "d">>
      [] s = "offload" -> <<"o", "f", "f", "l", "o", "a", "d">>
      [] s = "rent" -> <<"r", "e", "n", "t">>
      [] s = "rental" -> <<"r", "e", "n", "t", "a", "l">>
      [] s = "lease" -> <<"l", "e", "a", "s", "e">>
      [] s = "renting" -> <<"r", "e", "n", "t", "i", "n", "g">>
      [] s = "temporary" -> <<"t", "e", "m", "p", "o", "r", "a", "r", "y">>
      [] s = "short term" -> <<"s", "h", "o", "r", "t", " ", "t", "e", "r", "m">>
      [] s = "monthly" -> <<"m", "o", "n", "t", "h", "l", "y">>
      [] s = "rent out" -> <<"r", "e", "n", "t", " ", "o", "u", "t">>
      [] s = "tell me about" -> <<"t", "e", "l", "l", " ", "m", "e", " ", "a", "b", "o", "u", "t">>
      [] s = "explain" -> <<"e", "x", "p", "l", "a", "i", "n">>
      [] s = "how does" -> <<"h", "o", "w", " ", "d", "o", "e", "s">>
      [] s = "what is" -> <<"w", "h", "a", "t", " ", "i", "s">>
      [] s = "information" -> <<"i", "n", "f", "o", "r", "m", "a", "t", "i", "o", "n">>
      [] s = "help me understand" -> <<"h", "e", "l", "p", " ", "m", "e", " ", "u", "n", "d", "e", "r", "s", "t", "a", "n", "d">>
      [] s = "guide me" -> <<"g", "u", "i", "d", "e", " ", "m", "e">>
      [] s = "advice" -> <<"a", "d", "v", "i", "c", "e">>
      [] s = "tips" -> <<"t", "i", "p", "s">>
      [] s = "BUY" -> <<"B", "U", "Y">>
      [] s = "xyz" -> <<"x", "y", "z">>
      [] s = " " -> <<" ">>

\* str.lower() on one character
LowerChar(c) ==
    CASE c = "A" -> "a"
      [] c = "B" -> "b"
      [] c = "C" -> "c"
      [] c = "D" -> "d"
      [] c = "E" -> "e"
      [] c = "F" -> "f"
      [] c = "G" -> "g"
      [] c = "H" -> "h"
      [] c = "I" -> "i"
      [] c = "J" -> "j"
      [] c = "K" -> "k"
      [] c = "L" -> "l"
      [] c = "M" -> "m"
      [] c = "N" -> "n"
      [] c = "O" -> "o"
      [] c = "P" -> "p"
      [] c = "Q" -> "q"
      [] c = "R" -> "r"
      [] c = "S" -> "s"
      [] c = "T" -> "t"
      [] c = "U" -> "u"
      [] c = "V" -> "v"
      [] c = "W" -> "w"
      [] c = "X" -> "x"
      [] c = "Y" -> "y"
      [] c = "Z" -> "z"
      [] OTHER -> c

\* str.lower()
Lower(cs) == [i \in 1..Len(cs) |-> LowerChar(cs[i])]

\* a in b, for two str (x and y are a and b, evaluated once)
IsSubstring(a, b) ==
    \E x \in {a}, y \in {b} :
        \/ x = <<>>
        \/ \E i \in 1..(Len(y) - Len(x) + 1) :
               y[i] = x[1] /\ SubSeq(y, i, i + Len(x) - 1) = x

(***************************************************************************)
(* Catalog Query (property_search_tool.py).  Prices are in hundredths of a *)
(* crore.  An Optional value is <<>> (None) or <<v>>.                      *)
(***************************************************************************)
Features(parking, balcony, garden, security, gym, pool, elevator) ==
    [parking |-> parking, balcony |-> balcony, garden |-> garden,
     security |-> security, gym |-> gym, pool |-> pool, elevator |-> elevator]

Property(id, price, type, city, area, bedrooms, bathrooms, features) ==
    [id |-> id, price_crores |-> price, property_type |-> type, city |-> city,
     area |-> area, bedrooms |-> bedrooms, bathrooms |-> bathrooms,
     features |-> features, available |-> TRUE]

\* _load_sample_properties
SampleProperties ==
    << Property("prop_001", 250, "apartment", "Lahore", "DHA Phase 5", 3, 3,
                Features(TRUE, TRUE, FALSE, TRUE, TRUE, FALSE, TRUE)),
       Property("prop_002", 180, "house", "Karachi", "Gulshan Iqbal", 4, 3,
                Features(TRUE, TRUE, TRUE, TRUE, FALSE, FALSE, FALSE)),
       Property("prop_003", 320, "apartment", "Islamabad", "F-8", 2, 2,
                Features(TRUE, TRUE, FALSE, TRUE, TRUE, TRUE, TRUE)),
       Property("prop_004", 120, "apartment", "Karachi", "Clifton", 1, 1,
                Features(FALSE, TRUE, FALSE, TRUE, FALSE, FALSE, FALSE)),
       Property("prop_005", 450, "bungalow", "Lahore", "DHA Phase 2", 5, 4,
                Features(TRUE, TRUE, TRUE, TRUE, FALSE, FALSE, FALSE)) >>

\* PropertySearchCriteria
Criteria(type, locations, minPrice, maxPrice, minBed, maxBed, minBath, features, cap) ==
    [property_type |-> type, locations |-> locations, min_price |-> minPrice,
     max_price |-> maxPrice, min_bedrooms |-> minBed, max_bedrooms |-> maxBed,
     min_bathrooms |-> minBath, must_have_features |-> features,
     max_results |-> cap]

\* the truth value Python gives an Optional[str] and an Optional[list]
TruthyStr(opt) == opt # <<>> /\ opt[1] # ""
TruthyList(opt) == opt # <<>> /\ opt[1] # <<>>

LocationMatches(prop, locations) ==
    \E i \in 1..Len(locations) :
        \/ IsSubstring(Lower(Chars(locations[i])), Lower(Chars(prop.city)))
        \/ IsSubstring(Lower(Chars(locations[i])), Lower(Chars(prop.area)))

\* the comparison made on the feature name as given, without lower()
FeatureMissingCaseSensitive(prop, feature) ==
    LET f == Chars(feature)
    IN  \/ (f = Chars("parking") /\ ~prop.features.parking)
        \/ (f = Chars("balcony") /\ ~prop.features.balcony)
        \/ (f = Chars("garden") /\ ~prop.features.garden)
        \/ (f = Chars("security") /\ ~prop.features.security)
        \/ (f = Chars("gym") /\ ~prop.features.gym)
        \/ (f = Chars("pool") /\ ~prop.features.pool)
        \/ (f = Chars("elevator") /\ ~prop.features.elevator)

\* one required feature rules the property out
FeatureMissing(prop, feature) ==
    LET f == Lower(Chars(feature))
    IN  \/ (f = Chars("parking") /\ ~prop.features.parking)
        \/ (f = Chars("balcony") /\ ~prop.features.balcony)
        \/ (f = Chars("garden") /\ ~prop.features.garden)
        \/ (f = Chars("security") /\ ~prop.features.security)
        \/ (f = Chars("gym") /\ ~prop.features.gym)
        \/ (f = Chars("pool") /\ ~prop.features.pool)
        \/ (f = Chars("elevator") /\ ~prop.features.elevator)

\* a property kept as soon as one required feature is there
HasAnyFeature(prop, features) ==
    \E i \in 1..Len(features) : ~FeatureMissing(prop, features[i])

HasAllFeatures(prop, features) ==
    \A i \in 1..Len(features) : ~FeatureMissing(prop, features[i])

\* the list without a limit
SliceAll(s, n) == s

\* filtered[:n]
Slice(s, n) ==
    IF n >= 0 THEN SubSeq(s, 1, IF n < Len(s) THEN n ELSE Len(s))
    ELSE SubSeq(s, 1, IF Len(s) + n > 0 THEN Len(s) + n ELSE 0)

\* _filter_properties: each filter is applied when its criterion is set
FilterProperties(properties, c) ==
    LET f1 == SelectSeq(properties, LAMBDA p :
                  TruthyStr(c.property_type) =>
                      IsSubstring(Lower(Chars(c.property_type[1])),
                                  Lower(Chars(p.property_type))))
        f2 == SelectSeq(f1, LAMBDA p :
                  TruthyList(c.locations) => LocationMatches(p, c.locations[1]))
        f3 == SelectSeq(f2, LAMBDA p :
                  c.min_price # <<>> => p.price_crores >= c.min_price[1])
        f4 == SelectSeq(f3, LAMBDA p :
                  c.max_price # <<>> => p.price_crores <= c.max_price[1])
        f5 == SelectSeq(f4, LAMBDA p :
                  c.min_bedrooms # <<>> => p.bedrooms >= c.min_bedrooms[1])
        f6 == SelectSeq(f5, LAMBDA p :
                  c.max_bedrooms # <<>> => p.bedrooms <= c.max_bedrooms[1])
        f7 == SelectSeq(f6, LAMBDA p :
                  c.min_bathrooms # <<>> => p.bathrooms >= c.min_bathrooms[1])
        f8 == SelectSeq(f7, LAMBDA p :
                  TruthyList(c.must_have_features) =>
                      HasAllFeatures(p, c.must_have_features[1]))
        f9 == SelectSeq(f8, LAMBDA p : p.available)
    IN  Slice(f9, c.max_results)

\* search_properties over a given list of properties
SearchIn(properties, c) ==
    LET matching == FilterProperties(properties, c)
    IN  [properties |-> matching, total_found |-> Len(matching),
         search_criteria |-> c]

\* search_properties
SearchProperties(c) == SearchIn(SampleProperties, c)

\* "3 bed flat in Karachi for 2.5 crores with parking", as the reasoning step
\* encodes it, and a second request
CriteriaKarachi ==
    Criteria(<<"apartment">>, << <<"Karachi">> >>, <<>>, <<250>>, <<>>, <<>>, <<>>,
             << <<"parking">> >>, 10)
CriteriaLahore ==
    Criteria(<<"house">>, << <<"Lahore">> >>, <<>>, <<>>, <<>>, <<>>, <<>>, <<>>, 10)

(***************************************************************************)
(* The tool node (langgraph.prebuilt.ToolNode over self.tools).            *)
(***************************************************************************)
\* every tool of core.tools, run by name; `up` says whether the store answers
Execute(name, args, up) ==
    CASE name = "save_customer_preferences_tool" ->
             Content("preferences", SavePreferencesResult(up).status, <<>>)
      [] name = "search_properties" ->
             Content("search", "success", <<SearchProperties(args.criteria[1])>>)
      [] OTHER -> Content(name, "success", <<>>)

\* a tool node that drops the requests it cannot resolve
RunToolSkipUnknown(t, messages, k, call, up) ==
    IF call.name \in RegisteredTools
    THEN <<ToolMessage(FreshId(t, messages, k), Execute(call.name, call.args, up),
                       call.id, call.name, "success")>>
    ELSE <<>>

\* one request of the batch: looked up by name among the registered tools;
\* an unregistered name gives an error result, not a raised failure
RunTool(t, messages, k, call, up) ==
    IF call.name \in RegisteredTools
    THEN <<ToolMessage(FreshId(t, messages, k), Execute(call.name, call.args, up),
                       call.id, call.name, "success")>>
    ELSE <<ToolMessage(FreshId(t, messages, k),
                       Content("UnknownTool", "error", <<>>),
                       call.id, call.name, "error")>>

RECURSIVE RunBatch(_, _, _, _, _)
RunBatch(t, messages, calls, k, up) ==
    IF k > Len(calls) THEN <<>>
    ELSE RunTool(t, messages, k, calls[k], up) \o RunBatch(t, messages, calls, k + 1, up)

RECURSIVE StoreAfterBatch(_, _, _)
StoreAfterBatch(store, calls, up) ==
    IF calls = <<>> THEN store
    ELSE LET c == Head(calls)
             next == IF c.name = "save_customer_preferences_tool"
                        /\ c.name \in RegisteredTools
                     THEN SavePreferencesStore(store, c.args.user_preference, up)
                     ELSE store
         IN  StoreAfterBatch(next, Tail(calls), up)

(***************************************************************************)
(* The chat node (core/nodes/chat.py).                                     *)
(***************************************************************************)
HasSystemMessage(messages) == \E i \in 1..Len(messages) : messages[i].type = "system"

\* _prepare_messages with the test inverted
prepare_messages_inverted(messages) ==
    IF HasSystemMessage(messages) THEN <<SystemMessage("system prompt")>> \o messages
    ELSE messages

\* _prepare_messages
prepare_messages(messages) ==
    IF ~HasSystemMessage(messages) THEN <<SystemMessage("system prompt")>> \o messages
    ELSE messages

\* the batches a reasoning step asks for; identifiers are new with every request
CallId(t, messages, k) == <<t, Len(messages) + 1, k>>

Batches(t, messages) ==
    { <<ToolCall(CallId(t, messages, 1), "search_properties",
                 Args(<<CriteriaKarachi>>, "none"))>>,
      <<ToolCall(CallId(t, messages, 1), "save_customer_preferences_tool",
                 Args(<<>>, "prefsA")),
        ToolCall(CallId(t, messages, 2), "no_such_tool", NoArgs)>> }

\* what llm.ainvoke may return: the stub asks for a tool at every step
Responses(t, messages) ==
    IF llm = "always_tool"
    THEN { AIMessage(FreshId(t, messages, 1), "",
                     <<ToolCall(CallId(t, messages, 1), "kick_ass_tool", NoArgs)>>) }
    ELSE { AIMessage(FreshId(t, messages, 1), "answer", <<>>) }
         \cup { AIMessage(FreshId(t, messages, 1), "", b) :
                    b \in IF rounds[t] < MaxToolRounds THEN Batches(t, messages) ELSE {} }

(***************************************************************************)
(* The graph (RealEstateAgent.__build_graph) and process_message.          *)
(***************************************************************************)
Last(messages) == messages[Len(messages)]

\* a router that always dispatches
tools_condition_always(messages) == "tools"

\* langgraph.prebuilt.tools_condition, the conditional edge out of "chatbot"
tools_condition(messages) ==
    IF Last(messages).type = "ai" /\ Len(Last(messages).tool_calls) > 0
    THEN "tools" ELSE "__end__"

\* the user turns of all sessions
UserMessages ==
    Cardinality(UNION { { <<t, i>> : i \in { j \in 1..Len(memory[t]) :
                                               memory[t][j].type = "human" } } :
                        t \in Threads })

\* a call without thread_id landing on the first session there is
FreshThreadFirst == CHOOSE u \in Threads : \A v \in Threads : u <= v

\* uuid.uuid4(): a thread no call has used
FreshThread == CHOOSE u \in UuidThreads :
                   /\ memory[u] = <<>>
                   /\ \A v \in UuidThreads : memory[v] = <<>> => u <= v

\* ConversationStage
ConversationStage ==
    {"greeting", "intent_classification", "needs_assessment",
     "requirements_gathering", "property_search", "property_presentation",
     "refinement", "property_details", "favorites_management", "follow_up",
     "scheduling", "closing"}

\* the conversation_stage of initial_state
InitialStage == "greeting"

\* a reasoning step that hands back the stage of the input
ChatNodeStageOfInput == InitialStage

\* the conversation_stage chat_node returns
ChatNodeStage == "needs_assessment"

\* process_message up to the first node: the input is merged into the
\* thread's checkpoint and the graph starts at "chatbot"
ProcessMessage(tid, text) ==
    /\ UserMessages < MaxMessages
    /\ tid = 0 => \E u \in UuidThreads : memory[u] = <<>>
    /\ LET t == IF tid = 0 THEN FreshThread ELSE tid
       IN  /\ pc[t] \in {"idle", "done", "raised"}
           /\ memory' = [memory EXCEPT ![t] =
                  add_messages(@, <<HumanMessage(FreshId(t, @, 1), text)>>)]
           /\ stage' = [stage EXCEPT ![t] = InitialStage]
           /\ pc' = [pc EXCEPT ![t] = "chatbot"]
           /\ step' = [step EXCEPT ![t] = 0]
           /\ rounds' = [rounds EXCEPT ![t] = 0]
           /\ response' = [response EXCEPT ![t] = <<>>]
    /\ UNCHANGED <<llmInput, llm, preferences, favVars, storeVars, pureVars>>

\* the "chatbot" node and the routing out of it; on "__end__" ainvoke returns
\* and process_message answers with the last message
ChatNode(t) ==
    /\ pc[t] = "chatbot"
    /\ llm # "raises"
    /\ step[t] < RecursionLimit
    /\ \E resp \in Responses(t, memory[t]) :
        LET after == add_messages(memory[t], <<resp>>)
            route == tools_condition(after)
        IN  /\ llmInput' = [llmInput EXCEPT ![t] = prepare_messages(memory[t])]
            /\ memory' = [memory EXCEPT ![t] = after]
            /\ stage' = [stage EXCEPT ![t] = ChatNodeStage]
            /\ step' = [step EXCEPT ![t] = @ + 1]
            /\ rounds' = [rounds EXCEPT ![t] =
                   IF Len(resp.tool_calls) > 0 /\ @ < MaxToolRounds THEN @ + 1 ELSE @]
            /\ pc' = [pc EXCEPT ![t] = IF route = "tools" THEN "tools" ELSE "done"]
            /\ response' = [response EXCEPT ![t] =
                   IF route = "tools" THEN <<>> ELSE <<Last(after)>>]
    /\ UNCHANGED <<llm, preferences, favVars, storeVars, pureVars>>

\* the "tools" node: every request of the last assistant message is run and
\* its result appended; then the edge back to "chatbot"
ToolsNode(t) ==
    /\ pc[t] = "tools"
    /\ step[t] < RecursionLimit
    /\ \E up \in BOOLEAN :
        LET calls == Last(memory[t]).tool_calls
        IN  /\ memory' = [memory EXCEPT ![t] =
                   add_messages(@, RunBatch(t, @, calls, 1, up))]
            /\ preferences' = StoreAfterBatch(preferences, calls, up)
    /\ step' = [step EXCEPT ![t] = @ + 1]
    /\ pc' = [pc EXCEPT ![t] = "chatbot"]
    /\ UNCHANGED <<stage, rounds, response, llmInput, llm, favVars, storeVars, pureVars>>

\* llm.ainvoke raises inside chat_node (llm = "raises": the provider cannot
\* be reached, every call of the model fails): neither chat_node nor
\* process_message has a handler, so the error leaves process_message; the
\* input written before the node ran stays in the checkpoint
LlmRaises(t) ==
    /\ llm = "raises"
    /\ pc[t] = "chatbot"
    /\ step[t] < RecursionLimit
    /\ pc' = [pc EXCEPT ![t] = "raised"]
    /\ UNCHANGED <<memory, stage, step, rounds, response, llmInput, llm, preferences,
                   favVars, storeVars, pureVars>>

\* the step limit is reached with a node still to run: graph.ainvoke raises
\* GraphRecursionError, which process_message does not catch
RecursionLimitReached(t) ==
    /\ pc[t] \in {"chatbot", "tools"}
    /\ step[t] >= RecursionLimit
    /\ pc' = [pc EXCEPT ![t] = "raised"]
    /\ UNCHANGED <<memory, stage, step, rounds, response, llmInput, llm, preferences,
                   favVars, storeVars, pureVars>>


(***************************************************************************)
(* Favorites (core/tools/favorites_tool.py) over the favorites collection. *)
(***************************************************************************)
PropertyIds == {"prop_001", "prop_002"}
UserIds == {"1", "2"}
Notes == {"none", "close to school"}
Priorities == {"medium", "high"}
Sessions == {"s1", "s2"}

\* FavoriteProperty(...).dict()
FavoriteProperty(property_id, user_id, saved_at, notes, priority) ==
    [property_id |-> property_id, user_id |-> user_id, saved_at |-> saved_at,
     notes |-> notes, priority |-> priority]

\* the documents a filter {"property_id": p, "user_id": u} matches
Matching(coll, property_id, user_id) ==
    { i \in 1..Len(coll) :
        coll[i].property_id = property_id /\ coll[i].user_id = user_id }

\* a filter that leaves the user out
MatchingAnyUser(coll, property_id, user_id) ==
    { i \in 1..Len(coll) : coll[i].property_id = property_id }

\* collection.find_one: the first matching document, <<>> for None
FindOne(coll, property_id, user_id) ==
    LET m == Matching(coll, property_id, user_id)
    IN  IF m = {} THEN <<>> ELSE <<coll[CHOOSE i \in m : \A j \in m : i <= j]>>

\* collection.insert_one
InsertOne(coll, doc) == Append(coll, doc)

Without(coll, i) == SubSeq(coll, 1, i - 1) \o SubSeq(coll, i + 1, Len(coll))

\* delete_one with the user left out of the filter
DeleteOneAnyUser(coll, property_id, user_id) ==
    LET m == MatchingAnyUser(coll, property_id, user_id)
    IN  IF m = {} THEN [coll |-> coll, deleted_count |-> 0]
        ELSE [coll |-> Without(coll, CHOOSE i \in m : \A j \in m : i <= j),
              deleted_count |-> 1]

\* collection.delete_one: the first matching document goes
DeleteOne(coll, property_id, user_id) ==
    LET m == Matching(coll, property_id, user_id)
    IN  IF m = {} THEN [coll |-> coll, deleted_count |-> 0]
        ELSE [coll |-> Without(coll, CHOOSE i \in m : \A j \in m : i <= j),
              deleted_count |-> 1]

\* a returned call: its arguments, whether the store answered, its status
Op(op, session, property_id, user_id, notes, priority, up, status) ==
    [op |-> op, session |-> session, property_id |-> property_id,
     user_id |-> user_id, notes |-> notes, priority |-> priority, up |-> up,
     status |-> status]
NoOp == Op("none", "none", "none", "none", "none", "none", TRUE, "none")
NoPending == [active |-> FALSE, property_id |-> "none", user_id |-> "none",
              notes |-> "none", priority |-> "none"]

\* save_to_favorites that inserts without looking
SaveInsertsAlways(coll, property_id, user_id, notes, priority, now, up) ==
    IF ~up THEN [coll |-> coll, status |-> "error"]
    ELSE [coll |-> InsertOne(coll, FavoriteProperty(property_id, user_id, now,
                                                    notes, priority)),
          status |-> "success"]

\* save_to_favorites run without interruption: find_one, then insert_one
SaveToFavorites(coll, property_id, user_id, notes, priority, now, up) ==
    IF ~up THEN [coll |-> coll, status |-> "error"]
    ELSE IF FindOne(coll, property_id, user_id) # <<>>
    THEN [coll |-> coll, status |-> "warning"]
    ELSE [coll |-> InsertOne(coll, FavoriteProperty(property_id, user_id, now,
                                                    notes, priority)),
          status |-> "success"]

\* remove_from_favorites
RemoveFromFavorites(coll, property_id, user_id, up) ==
    IF ~up THEN [coll |-> coll, status |-> "error"]
    ELSE LET result == DeleteOne(coll, property_id, user_id)
         IN  [coll |-> result.coll,
              status |-> IF result.deleted_count > 0 THEN "success" ELSE "warning"]

\* one caller: a whole save_to_favorites call
Save(property_id, user_id, notes, priority, up) ==
    /\ favCalls < MaxCalls
    /\ LET r == SaveToFavorites(favorites, property_id, user_id, notes, priority,
                                clock, up)
       IN  /\ favorites' = r.coll
           /\ lastOp' = Op("save", "s1", property_id, user_id, notes, priority, up,
                           r.status)
    /\ favCalls' = favCalls + 1
    /\ UNCHANGED <<orchVars, storeVars, pureVars, preferences, clock, pending>>

\* a whole remove_from_favorites call (one store operation)
Remove(session, property_id, user_id, up) ==
    /\ favCalls < MaxCalls
    /\ ~pending[session].active
    /\ LET r == RemoveFromFavorites(favorites, property_id, user_id, up)
       IN  /\ favorites' = r.coll
           /\ lastOp' = Op("remove", session, property_id, user_id, "none", "none",
                           up, r.status)
    /\ favCalls' = favCalls + 1
    /\ UNCHANGED <<orchVars, storeVars, pureVars, preferences, clock, pending>>

\* time passes between two readings of datetime.now()
Tick ==
    /\ clock < MaxClock
    /\ clock' = clock + 1
    /\ UNCHANGED <<orchVars, storeVars, pureVars, preferences, favorites, favCalls, lastOp, pending>>

\* concurrent sessions: save_to_favorites up to and including find_one; the
\* call returns here when the store fails or a document is found
SaveFind(session, property_id, user_id, notes, priority, up) ==
    /\ favCalls < MaxCalls
    /\ ~pending[session].active
    /\ favCalls' = favCalls + 1
    /\ IF ~up \/ FindOne(favorites, property_id, user_id) # <<>>
       THEN /\ lastOp' = Op("save", session, property_id, user_id, notes, priority,
                            up, IF ~up THEN "error" ELSE "warning")
            /\ UNCHANGED pending
       ELSE /\ pending' = [pending EXCEPT ![session] =
                   [active |-> TRUE, property_id |-> property_id,
                    user_id |-> user_id, notes |-> notes, priority |-> priority]]
            /\ UNCHANGED lastOp
    /\ UNCHANGED <<orchVars, storeVars, pureVars, preferences, favorites, clock>>

\* concurrent sessions: the rest of save_to_favorites, insert_one and return
SaveInsert(session, up) ==
    /\ pending[session].active
    /\ LET c == pending[session]
       IN  /\ favorites' = IF up
                  THEN InsertOne(favorites, FavoriteProperty(c.property_id, c.user_id,
                                                clock, c.notes, c.priority))
                  ELSE favorites
           /\ lastOp' = Op("save", session, c.property_id, c.user_id, c.notes,
                           c.priority, up, IF up THEN "success" ELSE "error")
    /\ pending' = [pending EXCEPT ![session] = NoPending]
    /\ UNCHANGED <<orchVars, storeVars, pureVars, preferences, clock, favCalls>>

\* find({"user_id": u}).sort("saved_at", -1): the user's documents, latest
\* first; the store fixes no order among documents saved at the same time
FindSorted(coll, user_id) ==
    LET m == { i \in 1..Len(coll) : coll[i].user_id = user_id }
        n == Cardinality(m)
    IN  { [k \in 1..n |-> coll[f[k]]] :
            f \in { g \in [1..n -> m] :
                      /\ \A a, b \in 1..n : a # b => g[a] # g[b]
                      /\ \A a \in 1..n : a < n =>
                             coll[g[a]].saved_at >= coll[g[a + 1]].saved_at } }

\* get_favorites: the results it may return
GetFavorites(coll, user_id, up) ==
    IF ~up THEN { [status |-> "error", favorites |-> <<>>] }
    ELSE { [status |-> "success", favorites |-> fs] : fs \in FindSorted(coll, user_id) }

\* get_favorites_summary: which text it returns, and the entries the text
\* lists.  `callable` says whether the installed langchain_core lets a tool
\* object be called like a function; where it does not, the call raises and
\* the handler's text is returned.
GetFavoritesSummary(coll, user_id, up, callable) ==
    IF ~callable THEN { [text |-> "Failed to get favorites summary", entries |-> <<>>] }
    ELSE { IF r.status # "success" \/ r.favorites = <<>>
           THEN [text |-> "You haven't saved any properties to favorites yet",
                 entries |-> <<>>]
           ELSE [text |-> "Your Favorite Properties", entries |-> r.favorites] :
           r \in GetFavorites(coll, user_id, up) }

\* a returned read: its arguments, whether the store answered, its result
Read(op, user_id, up, status, text, entries) ==
    [op |-> op, user_id |-> user_id, up |-> up, status |-> status, text |-> text,
     entries |-> entries]
NoRead == Read("none", "none", TRUE, "none", "none", <<>>)
NoPref == [user |-> 0, payload |-> "none", up |-> TRUE, status |-> "none"]

\* a whole get_favorites call
List(user_id, up) ==
    /\ favCalls < MaxCalls
    /\ \E r \in GetFavorites(favorites, user_id, up) :
           lastRead' = Read("list", user_id, up, r.status, "none", r.favorites)
    /\ favCalls' = favCalls + 1
    /\ UNCHANGED <<orchVars, pureVars, preferences, favorites, clock, lastOp, pending,
                   lastPref, lastSaved>>

\* a whole get_favorites_summary call
Summary(user_id, up, callable) ==
    /\ favCalls < MaxCalls
    /\ \E r \in GetFavoritesSummary(favorites, user_id, up, callable) :
           lastRead' = Read("summary", user_id, up, "none", r.text, r.entries)
    /\ favCalls' = favCalls + 1
    /\ UNCHANGED <<orchVars, pureVars, preferences, favorites, clock, lastOp, pending,
                   lastPref, lastSaved>>

\* a whole save_customer_preferences_tool call, made for user u: the tool
\* takes the payload only
SavePreferences(u, payload, up) ==
    /\ favCalls < MaxCalls
    /\ preferences' = SavePreferencesStore(preferences, payload, up)
    /\ lastPref' = [user |-> u, payload |-> payload, up |-> up,
                    status |-> SavePreferencesResult(up).status]
    /\ lastSaved' = IF SavePreferencesResult(up).status = "success"
                    THEN [lastSaved EXCEPT ![u] = <<payload>>] ELSE lastSaved
    /\ favCalls' = favCalls + 1
    /\ UNCHANGED <<orchVars, pureVars, favorites, clock, lastOp, pending, lastRead>>

InitStoreCalls ==
    /\ lastRead = NoRead
    /\ lastPref = NoPref
    /\ lastSaved = [u \in Customers |-> <<>>]

InitSearchIdle ==
    /\ catalog = <<>>
    /\ search_criteria = <<>>
    /\ found = <<>>
    /\ narrowed = <<>>

\* the catalogs searched: the sample properties, all available, and the same
\* with one of them taken
Catalogs ==
    { SampleProperties,
      [SampleProperties EXCEPT ![2] = [@ EXCEPT !.available = FALSE]] }

TypeValues == {"apartment", ""}
LocationValues == {"karachi", "DHA"}
FeatureValues == {"Parking", "garden", "jacuzzi"}
Caps == {10, 1, 0}

\* the values a field of PropertySearchCriteria is first set to
FieldValues(field) ==
    CASE field = "property_type" -> TypeValues
      [] field = "locations" -> {<<>>} \cup { <<l>> : l \in LocationValues }
      [] field = "min_price" -> {150}
      [] field = "max_price" -> {250}
      [] field = "min_bedrooms" -> {2}
      [] field = "max_bedrooms" -> {3}
      [] field = "min_bathrooms" -> {3}
      [] field = "must_have_features" -> {<<>>} \cup { <<f>> : f \in FeatureValues }

Fields == {"property_type", "locations", "min_price", "max_price", "min_bedrooms",
           "max_bedrooms", "min_bathrooms", "must_have_features"}

Elements(list) == { list[i] : i \in 1..Len(list) }

\* search_properties with the new criteria; `how` says what was added
SearchAgain(c, how) ==
    /\ search_criteria' = c
    /\ found' = SearchIn(catalog, c)
    /\ narrowed' = [how |-> how, before |-> found.total_found]
    /\ UNCHANGED <<orchVars, preferences, favVars, storeVars, refineVars, intentVars,
                   catalog>>

\* a field that was None is set
SetField(field, value) ==
    /\ search_criteria[field] = <<>>
    /\ Cardinality({ f \in Fields : search_criteria[f] # <<>> }) < MaxConstraints
    /\ SearchAgain([search_criteria EXCEPT ![field] = <<value>>], "field")

\* one more entry in the location list
AddLocation(l) ==
    /\ search_criteria.locations # <<>>
    /\ Len(search_criteria.locations[1]) < MaxListLen
    /\ l \notin Elements(search_criteria.locations[1])
    /\ SearchAgain([search_criteria EXCEPT !.locations = <<Append(@[1], l)>>],
                   "location")

\* one more entry in the required-feature list
AddFeature(f) ==
    /\ search_criteria.must_have_features # <<>>
    /\ Len(search_criteria.must_have_features[1]) < MaxListLen
    /\ f \notin Elements(search_criteria.must_have_features[1])
    /\ SearchAgain([search_criteria EXCEPT !.must_have_features = <<Append(@[1], f)>>],
                   "feature")

InitSearch ==
    /\ catalog \in Catalogs
    /\ \E cap \in Caps :
           search_criteria =
               Criteria(<<>>, <<>>, <<>>, <<>>, <<>>, <<>>, <<>>, <<>>, cap)
    /\ found = SearchIn(catalog, search_criteria)
    /\ narrowed = [how |-> "none", before |-> 0]

(***************************************************************************)
(* Refinement (core/tools/refinement_tool.py).  A PropertySearchCriteria   *)
(* object holds its lists by reference: `heap` is the list objects, a list *)
(* field is <<>> (None) or <<r>> with heap[r] the list.                    *)
(***************************************************************************)
\* the phrases of each class, in the order of the source
PricePhrasesDown == {"too expensive", "price too high", "over budget", "reduce price"}
PricePhrasesUp == {"increase budget", "higher price", "more expensive"}
BedroomPhrasesMore == {"more bedrooms", "need more rooms", "bigger house"}
BedroomPhrasesFewer == {"fewer bedrooms", "smaller house", "less rooms"}
LocationPhrases == {"different location", "other area", "change location"}
FeaturePhrases(f) ==
    CASE f = "parking" -> {"need parking", "must have parking"}
      [] f = "balcony" -> {"need balcony", "must have balcony"}
      [] f = "garden" -> {"need garden", "must have garden"}
ApartmentPhrases == {"apartment", "flat"}
HousePhrases == {"house", "bungalow", "villa"}

\* all(phrase in feedback_lower for phrase in phrases)
EveryPhrase(phrases, feedback_lower) ==
    \A ph \in phrases : IsSubstring(Chars(ph), feedback_lower)

\* any(phrase in feedback_lower for phrase in phrases)
AnyPhrase(phrases, feedback_lower) ==
    \E ph \in phrases : IsSubstring(Chars(ph), feedback_lower)

\* the feedback text: its parts joined by " and "
RECURSIVE Join(_)
Join(parts) ==
    IF parts = <<>> THEN <<>>
    ELSE IF Len(parts) = 1 THEN Chars(parts[1])
    ELSE Chars(parts[1]) \o Chars(" and ") \o Join(Tail(parts))

\* x * 0.8 and x * 1.5 on a price in hundredths of a crore
Times08(x) == (x * 8) \div 10
Times15(x) == (x * 15) \div 10

\* f"{x:.1f}": the price in tenths, rounded
Format1f(x) == (x + 5) \div 10

\* an entry of changes_made: its wording and the value formatted into it
Change(text, value) == [text |-> text, value |-> value]

\* PropertySearchCriteria() in place of the copy
model_copy_default(obj) ==
    Criteria(<<>>, <<>>, <<>>, <<>>, <<>>, <<>>, <<>>, <<>>, 10)

\* current_criteria.model_copy(): a new object with the same field values;
\* the copy is shallow, a list field refers to the same list object
model_copy(obj) == obj

\* the price adjustments; st is [heap, u (updated_criteria), changes]
AdjustPrice(st, feedback_lower) ==
    IF AnyPhrase(PricePhrasesDown, feedback_lower)
    THEN IF st.u.max_price # <<>> /\ st.u.max_price[1] # 0
         THEN LET x == Times08(st.u.max_price[1])
              IN  [st EXCEPT !.u.max_price = <<x>>,
                             !.changes = Append(@, Change("Reduced max price to",
                                                          <<Format1f(x)>>))]
         ELSE [st EXCEPT !.u.max_price = <<200>>,
                         !.changes = Append(@, Change("Set max price to 2.0 crores",
                                                      <<>>))]
    ELSE IF AnyPhrase(PricePhrasesUp, feedback_lower)
    THEN IF st.u.max_price # <<>> /\ st.u.max_price[1] # 0
         THEN LET x == Times15(st.u.max_price[1])
              IN  [st EXCEPT !.u.max_price = <<x>>,
                             !.changes = Append(@, Change("Increased max price to",
                                                          <<Format1f(x)>>))]
         ELSE [st EXCEPT !.u.max_price = <<500>>,
                         !.changes = Append(@, Change("Set max price to 5.0 crores",
                                                      <<>>))]
    ELSE st

Max(a, b) == IF a >= b THEN a ELSE b

\* the bedroom adjustments
AdjustBedrooms(st, feedback_lower) ==
    IF AnyPhrase(BedroomPhrasesMore, feedback_lower)
    THEN IF st.u.min_bedrooms # <<>> /\ st.u.min_bedrooms[1] # 0
         THEN LET x == Max(st.u.min_bedrooms[1] + 1, 3)
              IN  [st EXCEPT !.u.min_bedrooms = <<x>>,
                             !.changes = Append(@, Change("Increased min bedrooms to",
                                                          <<x>>))]
         ELSE [st EXCEPT !.u.min_bedrooms = <<3>>,
                         !.changes = Append(@, Change("Set min bedrooms to 3", <<>>))]
    ELSE IF AnyPhrase(BedroomPhrasesFewer, feedback_lower)
    THEN IF st.u.min_bedrooms # <<>> /\ st.u.min_bedrooms[1] # 0
         THEN LET x == Max(st.u.min_bedrooms[1] - 1, 1)
              IN  [st EXCEPT !.u.min_bedrooms = <<x>>,
                             !.changes = Append(@, Change("Reduced min bedrooms to",
                                                          <<x>>))]
         ELSE [st EXCEPT !.u.min_bedrooms = <<1>>,
                         !.changes = Append(@, Change("Set min bedrooms to 1", <<>>))]
    ELSE st

\* the location adjustment: a request to the user, no change
AdjustLocation(st, feedback_lower) ==
    IF AnyPhrase(LocationPhrases, feedback_lower)
    THEN [st EXCEPT !.changes =
              Append(@, Change("Please specify which areas you'd prefer", <<>>))]
    ELSE st

FeatureAdded(f) ==
    CASE f = "parking" -> "Added parking as must-have feature"
      [] f = "balcony" -> "Added balcony as must-have feature"
      [] f = "garden" -> "Added garden as must-have feature"

\* a feature adjustment that appends without looking for the feature
AdjustFeatureAlways(st, feedback_lower, f) ==
    IF AnyPhrase(FeaturePhrases(f), feedback_lower)
    THEN LET falsy == \/ st.u.must_have_features = <<>>
                      \/ st.heap[st.u.must_have_features[1]] = <<>>
             s1 == IF falsy
                   THEN [st EXCEPT !.heap = Append(@, <<>>),
                                   !.u.must_have_features = <<Len(st.heap) + 1>>]
                   ELSE st
             r == s1.u.must_have_features[1]
         IN  [s1 EXCEPT !.heap[r] = Append(@, f),
                        !.changes = Append(@, Change(FeatureAdded(f), <<>>))]
    ELSE st

\* one feature adjustment: a list that is None or empty is replaced by a
\* new list object, then the feature is appended to the list in place
AdjustFeature(st, feedback_lower, f) ==
    IF AnyPhrase(FeaturePhrases(f), feedback_lower)
    THEN LET falsy == \/ st.u.must_have_features = <<>>
                      \/ st.heap[st.u.must_have_features[1]] = <<>>
             s1 == IF falsy
                   THEN [st EXCEPT !.heap = Append(@, <<>>),
                                   !.u.must_have_features = <<Len(st.heap) + 1>>]
                   ELSE st
             r == s1.u.must_have_features[1]
         IN  IF f \notin Elements(s1.heap[r])
             THEN [s1 EXCEPT !.heap[r] = Append(@, f),
                             !.changes = Append(@, Change(FeatureAdded(f), <<>>))]
             ELSE s1
    ELSE st

\* the property type adjustments
AdjustType(st, feedback_lower) ==
    IF AnyPhrase(ApartmentPhrases, feedback_lower)
    THEN [st EXCEPT !.u.property_type = <<"apartment">>,
                    !.changes = Append(@, Change("Set property type to apartment",
                                                 <<>>))]
    ELSE IF AnyPhrase(HousePhrases, feedback_lower)
    THEN [st EXCEPT !.u.property_type = <<"house">>,
                    !.changes = Append(@, Change("Set property type to house", <<>>))]
    ELSE st

\* refine_search_criteria: the heap after the call and the RefinementResult
RefineSearchCriteria(h, obj, feedback) ==
    LET feedback_lower == Lower(Join(feedback))
        s0 == [heap |-> h, u |-> model_copy(obj), changes |-> <<>>]
        s1 == AdjustPrice(s0, feedback_lower)
        s2 == AdjustBedrooms(s1, feedback_lower)
        s3 == AdjustLocation(s2, feedback_lower)
        s4 == AdjustFeature(s3, feedback_lower, "parking")
        s5 == AdjustFeature(s4, feedback_lower, "balcony")
        s6 == AdjustFeature(s5, feedback_lower, "garden")
        s7 == AdjustType(s6, feedback_lower)
    IN  [heap |-> s7.heap,
         updated_criteria |-> s7.u,
         changes_made |-> s7.changes,
         reasoning |-> [text |-> IF s7.changes # <<>>
                                 THEN "I've made these adjustments"
                                 ELSE "Could you tell me what specific changes you'd like to make?",
                        feedback |-> feedback,
                        changes |-> s7.changes]]

\* the value of a criteria object: every field, each list by its contents
Value(h, obj) ==
    [obj EXCEPT !.locations = IF @ = <<>> THEN <<>> ELSE <<h[@[1]]>>,
                !.must_have_features = IF @ = <<>> THEN <<>> ELSE <<h[@[1]]>>]

\* one call refine_search_criteria(current_criteria, user_feedback), on the
\* caller's object; the return is recorded with the values at that moment
Refine ==
    /\ Len(refined) < MaxRefines
    /\ \E r \in {RefineSearchCriteria(heap, current_criteria, user_feedback)} :
           /\ heap' = r.heap
           /\ refined' = Append(refined,
                  [on |-> "caller",
                   updated_criteria |-> r.updated_criteria,
                   changes_made |-> r.changes_made,
                   reasoning |-> r.reasoning,
                   returned |-> Value(r.heap, r.updated_criteria),
                   before |-> Value(heap, current_criteria),
                   after |-> Value(r.heap, current_criteria)])
    /\ UNCHANGED <<orchVars, preferences, favVars, storeVars, searchVars, intentVars,
                   current_criteria, user_feedback>>

\* one call refine_search_criteria(result.updated_criteria, user_feedback) on
\* the criteria the last call returned
RefineReturned ==
    /\ refined # <<>>
    /\ Len(refined) < MaxRefines
    /\ \E obj \in {refined[Len(refined)].updated_criteria} :
        \E r \in {RefineSearchCriteria(heap, obj, user_feedback)} :
           /\ heap' = r.heap
           /\ refined' = Append(refined,
                  [on |-> "returned",
                   updated_criteria |-> r.updated_criteria,
                   changes_made |-> r.changes_made,
                   reasoning |-> r.reasoning,
                   returned |-> Value(r.heap, r.updated_criteria),
                   before |-> Value(heap, obj),
                   after |-> Value(r.heap, obj)])
    /\ UNCHANGED <<orchVars, preferences, favVars, storeVars, searchVars, intentVars,
                   current_criteria, user_feedback>>

\* the parts of a feedback text
FeedbackParts ==
    <<"too expensive", "Over Budget", "higher price", "more bedrooms",
      "fewer bedrooms", "other area", "need parking", "must have garden",
      "must have balcony", "flat", "villa", "bigger house", "looks nice">>

\* the feedback texts: up to n parts, in the order above
RECURSIVE FeedbacksUpTo(_)
FeedbacksUpTo(n) ==
    IF n = 0 THEN {<<>>}
    ELSE { Append(fb, part) :
             fb \in { x \in FeedbacksUpTo(n - 1) : Len(x) = n - 1 },
             part \in { FeedbackParts[i] : i \in 1..Len(FeedbackParts) } }
         \cup FeedbacksUpTo(n - 1)

\* the position of a part in FeedbackParts
PartIndex(part) == CHOOSE i \in 1..Len(FeedbackParts) : FeedbackParts[i] = part

Feedbacks ==
    { fb \in FeedbacksUpTo(MaxPhrases) :
        \A i \in 1..Len(fb) : i < Len(fb) => PartIndex(fb[i]) < PartIndex(fb[i + 1]) }

\* the caller's lists: one for the locations, one for the required features
InitRefine ==
    /\ \E fs \in {<<>>, <<"balcony">>, <<"parking">>} :
           heap = << <<"Karachi">>, fs >>
    /\ \E type \in {<<>>, <<"house">>}, price \in {<<>>, <<0>>, <<300>>},
          bedrooms \in {<<>>, <<1>>, <<4>>}, features \in {<<>>, <<2>>} :
           current_criteria =
               Criteria(type, <<1>>, <<>>, price, bedrooms, <<>>, <<>>, features, 10)
    /\ (current_criteria.must_have_features = <<>>) => heap[2] = <<>>
    /\ user_feedback \in Feedbacks
    /\ refined = <<>>

InitRefineIdle ==
    /\ heap = <<>>
    /\ current_criteria = <<>>
    /\ user_feedback = <<>>
    /\ refined = <<>>

(***************************************************************************)
(* Intent classification (core/tools/intent_classification_tool.py).       *)
(***************************************************************************)
buy_keywords ==
    <<"buy", "purchase", "looking for", "need", "want", "searching for",
      "find me", "show me", "i want", "i need", "looking to buy",
      "interested in", "considering", "planning to buy">>
sell_keywords ==
    <<"sell", "selling", "put on market", "list", "advertise", "get rid of",
      "dispose of", "unload", "offload">>
rent_keywords ==
    <<"rent", "rental", "lease", "renting", "temporary", "short term",
      "monthly", "rent out">>
info_keywords ==
    <<"tell me about", "explain", "how does", "what is", "information",
      "help me understand", "guide me", "advice", "tips">>

\* the message text: its words joined by blanks
RECURSIVE Spaced(_)
Spaced(words) ==
    IF words = <<>> THEN <<>>
    ELSE IF Len(words) = 1 THEN Chars(words[1])
    ELSE Chars(words[1]) \o Chars(" ") \o Spaced(Tail(words))

\* how often a keyword occurs in the text
Occurrences(keyword, text) ==
    Cardinality({ i \in 0..(Len(text) - Len(keyword)) :
                    SubSeq(text, i + 1, i + Len(keyword)) = keyword })

\* a score that counts every occurrence of every keyword
RECURSIVE ScoreOccurrences(_, _)
ScoreOccurrences(keywords, message_lower) ==
    IF keywords = <<>> THEN 0
    ELSE Occurrences(Chars(Head(keywords)), message_lower)
             + ScoreOccurrences(Tail(keywords), message_lower)

\* sum(1 for keyword in keywords if keyword in message_lower)
RECURSIVE Score(_, _)
Score(keywords, message_lower) ==
    IF keywords = <<>> THEN 0
    ELSE (IF IsSubstring(Chars(Head(keywords)), message_lower) THEN 1 ELSE 0)
             + Score(Tail(keywords), message_lower)

\* the keys of `scores`, in insertion order
IntentOrder == <<"buy", "sell", "rent", "general_info">>

\* max over the keys that keeps the last of the largest
MaxIntentLast(scores) ==
    LET best == { i \in 1..Len(IntentOrder) :
                    \A j \in 1..Len(IntentOrder) :
                        scores[IntentOrder[j]] <= scores[IntentOrder[i]] }
    IN  IntentOrder[CHOOSE i \in best : \A j \in best : j <= i]

\* max(scores, key=scores.get): the first key, in insertion order, whose
\* score no other exceeds
MaxIntent(scores) ==
    LET best == { i \in 1..Len(IntentOrder) :
                    \A j \in 1..Len(IntentOrder) :
                        scores[IntentOrder[j]] <= scores[IntentOrder[i]] }
    IN  IntentOrder[CHOOSE i \in best : \A j \in best : i <= j]

\* the IntentClassification for the given scores; the confidence is the
\* quotient num / den
Classification(scores) ==
    LET max_intent == MaxIntent(scores)
        max_score == scores[max_intent]
        total_keywords == scores["buy"] + scores["sell"] + scores["rent"]
                              + scores["general_info"]
    IN  IF max_score = 0
        THEN [intent |-> "unknown", confidence |-> [num |-> 0, den |-> 1],
              reasoning |-> [text |-> "No clear intent keywords found in the message",
                             count |-> 0]]
        ELSE [intent |-> max_intent,
              confidence |-> [num |-> max_score, den |-> Max(total_keywords, 1)],
              reasoning |-> [text |-> "Detected keywords in the message",
                             count |-> max_score]]

\* the scores dict
Scores(message) ==
    CHOOSE r \in { [buy |-> Score(buy_keywords, message_lower),
                    sell |-> Score(sell_keywords, message_lower),
                    rent |-> Score(rent_keywords, message_lower),
                    general_info |-> Score(info_keywords, message_lower)] :
                   message_lower \in {Lower(Spaced(message))} } : TRUE

\* classify_user_intent
ClassifyUserIntent(message) == Classification(Scores(message))

\* one call classify_user_intent(user_message)
Classify ==
    /\ intent = <<>>
    /\ \E sc \in {Scores(user_message)} :
           /\ keyword_scores' = <<sc>>
           /\ intent' = <<Classification(sc)>>
    /\ UNCHANGED <<orchVars, preferences, favVars, storeVars, searchVars, refineVars,
                   user_message>>

\* the words of a message
Words == {"BUY", "i need", "sell", "selling", "rent", "rental", "tips", "xyz"}

\* the messages: up to n words
RECURSIVE MessagesUpTo(_)
MessagesUpTo(n) ==
    IF n = 0 THEN {<<>>}
    ELSE { Append(m, w) : m \in { x \in MessagesUpTo(n - 1) : Len(x) = n - 1 },
                          w \in Words }
         \cup MessagesUpTo(n - 1)

InitIntent ==
    /\ user_message \in MessagesUpTo(MaxWords)
    /\ keyword_scores = <<>>
    /\ intent = <<>>

InitIntentIdle ==
    /\ user_message = <<>>
    /\ keyword_scores = <<>>
    /\ intent = <<>>

InitFavorites ==
    /\ favorites = <<>>
    /\ clock = 0
    /\ favCalls = 0
    /\ lastOp = NoOp
    /\ pending = [s \in Sessions |-> NoPending]

Init ==
    /\ memory = [t \in Threads |-> <<>>]
    /\ stage = [t \in Threads |-> "none"]
    /\ pc = [t \in Threads |-> "idle"]
    /\ step = [t \in Threads |-> 0]
    /\ rounds = [t \in Threads |-> 0]
    /\ response = [t \in Threads |-> <<>>]
    /\ llmInput = [t \in Threads |-> <<>>]
    /\ llm \in {"free", "always_tool", "raises"}
    /\ preferences = [c \in Customers |-> <<>>]
    /\ InitFavorites
    /\ InitStoreCalls
    /\ InitSearchIdle
    /\ InitRefineIdle
    /\ InitIntentIdle

Next ==
    \/ \E tid \in NamedThreads \cup {0}, text \in Texts : ProcessMessage(tid, text)
    \/ \E t \in Threads : ChatNode(t)
    \/ \E t \in Threads : ToolsNode(t)
    \/ \E t \in Threads : RecursionLimitReached(t)
    \/ \E t \in Threads : LlmRaises(t)

Spec == Init /\ [][Next]_vars

\* the favorites tools called one after the other by one caller
InitFav == Init /\ llm = "free"

NextFav ==
    \/ \E p \in PropertyIds, u \in UserIds, n \in Notes, pr \in Priorities,
          up \in BOOLEAN : Save(p, u, n, pr, up)
    \/ \E p \in PropertyIds, u \in UserIds, up \in BOOLEAN : Remove("s1", p, u, up)
    \/ Tick

SpecFav == InitFav /\ [][NextFav]_vars

\* the favorites tools called by sessions that run at the same time
NextFavConc ==
    \/ \E s \in Sessions, p \in PropertyIds, u \in UserIds, n \in Notes,
          pr \in Priorities, up \in BOOLEAN : SaveFind(s, p, u, n, pr, up)
    \/ \E s \in Sessions, up \in BOOLEAN : SaveInsert(s, up)
    \/ \E s \in Sessions, p \in PropertyIds, u \in UserIds, up \in BOOLEAN :
          Remove(s, p, u, up)
    \/ Tick

SpecFavConc == InitFav /\ [][NextFavConc]_vars

\* every tool that goes to the store, called one after the other
NextStore ==
    \/ NextFav
    \/ \E u \in UserIds, up \in BOOLEAN : List(u, up)
    \/ \E u \in UserIds, up \in BOOLEAN, callable \in BOOLEAN : Summary(u, up, callable)
    \/ \E u \in Customers, payload \in PrefPayloads, up \in BOOLEAN :
          SavePreferences(u, payload, up)

SpecStore == InitFav /\ [][NextStore]_vars

\* search_properties on criteria that grow one constraint at a time
InitSearchSpec ==
    /\ memory = [t \in Threads |-> <<>>]
    /\ stage = [t \in Threads |-> "none"]
    /\ pc = [t \in Threads |-> "idle"]
    /\ step = [t \in Threads |-> 0]
    /\ rounds = [t \in Threads |-> 0]
    /\ response = [t \in Threads |-> <<>>]
    /\ llmInput = [t \in Threads |-> <<>>]
    /\ llm = "free"
    /\ preferences = [c \in Customers |-> <<>>]
    /\ InitFavorites
    /\ InitStoreCalls
    /\ InitSearch
    /\ InitRefineIdle
    /\ InitIntentIdle

NextSearch ==
    \/ \E field \in Fields : \E value \in FieldValues(field) : SetField(field, value)
    \/ \E l \in LocationValues : AddLocation(l)
    \/ \E f \in FeatureValues : AddFeature(f)

SpecSearch == InitSearchSpec /\ [][NextSearch]_vars

\* refine_search_criteria called on a caller's criteria object
InitRefineSpec ==
    /\ memory = [t \in Threads |-> <<>>]
    /\ stage = [t \in Threads |-> "none"]
    /\ pc = [t \in Threads |-> "idle"]
    /\ step = [t \in Threads |-> 0]
    /\ rounds = [t \in Threads |-> 0]
    /\ response = [t \in Threads |-> <<>>]
    /\ llmInput = [t \in Threads |-> <<>>]
    /\ llm = "free"
    /\ preferences = [c \in Customers |-> <<>>]
    /\ InitFavorites
    /\ InitStoreCalls
    /\ InitSearchIdle
    /\ InitRefine
    /\ InitIntentIdle

NextRefine == Refine \/ RefineReturned

SpecRefine == InitRefineSpec /\ [][NextRefine]_vars

\* classify_user_intent called on a message
InitIntentSpec ==
    /\ memory = [t \in Threads |-> <<>>]
    /\ stage = [t \in Threads |-> "none"]
    /\ pc = [t \in Threads |-> "idle"]
    /\ step = [t \in Threads |-> 0]
    /\ rounds = [t \in Threads |-> 0]
    /\ response = [t \in Threads |-> <<>>]
    /\ llmInput = [t \in Threads |-> <<>>]
    /\ llm = "free"
    /\ preferences = [c \in Customers |-> <<>>]
    /\ InitFavorites
    /\ InitStoreCalls
    /\ InitSearchIdle
    /\ InitRefineIdle
    /\ InitIntent

NextIntent == Classify

SpecIntent == InitIntentSpec /\ [][NextIntent]_vars

(***************************************************************************)
(* The turn loop: claims C1 to C7.                                         *)
(***************************************************************************)
\* REASONING, TOOL_DISPATCH and DONE of the turn loop
LoopStates == {"chatbot", "tools", "done"}

HumanTurns(messages) == { i \in 1..Len(messages) : messages[i].type = "human" }
ToolTurns(messages) == { i \in 1..Len(messages) : messages[i].type = "tool" }
AiTurns(messages) == { i \in 1..Len(messages) : messages[i].type = "ai" }

\* the tool turns after position i, up to the next assistant turn, that carry
\* the invocation identifier id
ResultsOf(messages, i, id) ==
    { j \in (i + 1)..Len(messages) :
        /\ messages[j].type = "tool"
        /\ messages[j].tool_call_id = id
        /\ \A m \in (i + 1)..j : messages[m].type # "ai" }

C1Move(t) ==
    \/ /\ pc[t] = "chatbot" /\ pc'[t] = "done"
       /\ memory'[t] = Append(memory[t], Last(memory'[t]))
       /\ Last(memory'[t]).type = "ai"
       /\ Last(memory'[t]).tool_calls = <<>>
       /\ response'[t] = <<Last(memory'[t])>>
    \/ /\ pc[t] = "chatbot" /\ pc'[t] = "tools"
       /\ memory'[t] = Append(memory[t], Last(memory'[t]))
       /\ Last(memory'[t]).type = "ai"
       /\ Len(Last(memory'[t]).tool_calls) >= 1
    \/ /\ pc[t] = "tools" /\ pc'[t] = "chatbot"
       /\ IsPrefix(memory[t], memory'[t])
       /\ HumanTurns(memory'[t]) = HumanTurns(memory[t])
       /\ \A k \in 1..Len(Last(memory[t]).tool_calls) :
              ResultsOf(memory'[t], Len(memory[t]), Last(memory[t]).tool_calls[k].id) # {}
    \/ /\ pc[t] = "done" /\ pc'[t] = "chatbot"
       /\ memory'[t] = Append(memory[t], Last(memory'[t]))
       /\ Last(memory'[t]).type = "human"

\* C1: every move of a session between the loop's states REASONING,
\* TOOL_DISPATCH and DONE is one of: REASONING to DONE on an assistant message
\* without requests, which is the returned response; REASONING to TOOL_DISPATCH
\* on an appended assistant message with at least one request; TOOL_DISPATCH to
\* REASONING once every request of the batch has its result; DONE to REASONING
\* only with a new user message.  A reasoning step always makes one of the two
\* moves out of REASONING.
C1_Routing ==
    [][\A t \in Threads :
          /\ (pc[t] \in LoopStates /\ pc'[t] \in LoopStates /\ pc'[t] # pc[t])
                 => C1Move(t)
          /\ (pc[t] = "chatbot" /\ step'[t] = step[t] + 1)
                 => pc'[t] \in {"tools", "done"}]_vars

C1_Witness ==
    \E t \in Threads : pc[t] = "done" /\ ToolTurns(memory[t]) # {}

\* C2: with a reasoning step that requests a tool on every invocation,
\* process_message never ends in a raised failure, and what it returns is a
\* terminal assistant message.
C2_FallbackOnLoopBound ==
    llm = "always_tool" =>
        \A t \in Threads :
            /\ pc[t] # "raised"
            /\ pc[t] = "done" =>
                   /\ response[t] # <<>>
                   /\ response[t][1].type = "ai"
                   /\ response[t][1].tool_calls = <<>>

\* C3: when the tool node runs a batch, every request whose name is not
\* registered gets exactly one appended tool turn with its invocation
\* identifier and the UnknownTool error payload, the history before the batch
\* is kept, and the loop goes back to REASONING; a raised failure out of
\* TOOL_DISPATCH comes from the step limit alone.
C3_UnknownTool ==
    [][\A t \in Threads :
          /\ (pc[t] = "tools" /\ step'[t] = step[t] + 1) =>
                 /\ pc'[t] = "chatbot"
                 /\ IsPrefix(memory[t], memory'[t])
                 /\ \A k \in 1..Len(Last(memory[t]).tool_calls) :
                        LET call == Last(memory[t]).tool_calls[k]
                            res == ResultsOf(memory'[t], Len(memory[t]), call.id)
                        IN  call.name \notin RegisteredTools =>
                                /\ Cardinality(res) = 1
                                /\ \A j \in res :
                                       /\ memory'[t][j].status = "error"
                                       /\ memory'[t][j].content.text = "UnknownTool"
          /\ (pc[t] = "tools" /\ pc'[t] = "raised") => step[t] >= RecursionLimit]_vars

C3_Witness ==
    \E t \in Threads : \E j \in ToolTurns(memory[t]) :
        /\ memory[t][j].name = "no_such_tool"
        /\ memory[t][j].status = "error"
        /\ pc[t] = "chatbot"

\* C4: when the reasoning step has requested search_properties with the
\* criteria of "3 bed flat in Karachi for 2.5 crores with parking" and the turn
\* is done, the session holds a tool turn for that request whose payload is
\* the search result carrying that criteria snapshot.
C4_SearchEndToEnd ==
    \A t \in Threads :
        pc[t] = "done" =>
            \A i \in AiTurns(memory[t]) :
                \A k \in 1..Len(memory[t][i].tool_calls) :
                    LET call == memory[t][i].tool_calls[k]
                    IN  (call.name = "search_properties"
                         /\ call.args.criteria = <<CriteriaKarachi>>) =>
                            \E j \in ResultsOf(memory[t], i, call.id) :
                                /\ memory[t][j].status = "success"
                                /\ memory[t][j].content.result # <<>>
                                /\ memory[t][j].content.result[1].search_criteria
                                       = CriteriaKarachi

\* C5: every history handed to the reasoning capability holds exactly one
\* system instruction turn, and it is the first turn.
C5_OneSystemTurn ==
    \A t \in Threads :
        llmInput[t] # <<>> =>
            /\ llmInput[t][1].type = "system"
            /\ Cardinality({ i \in 1..Len(llmInput[t]) :
                               llmInput[t][i].type = "system" }) = 1

C5_Witness ==
    \E t \in Threads :
        /\ Cardinality(HumanTurns(llmInput[t])) >= 2
        /\ ToolTurns(llmInput[t]) # {}

\* C6: every step keeps each session's history as a prefix of the history
\* after it; a new call on a session appends exactly the user turn after all
\* earlier turns, and the reasoning step is handed all of them.
C6_AppendOnly ==
    [][\A t \in Threads :
          /\ IsPrefix(memory[t], memory'[t])
          /\ (pc[t] \in {"idle", "done", "raised"} /\ pc'[t] = "chatbot") =>
                 /\ Len(memory'[t]) = Len(memory[t]) + 1
                 /\ Last(memory'[t]).type = "human"
          /\ (pc[t] = "chatbot" /\ step'[t] = step[t] + 1) =>
                 Tail(llmInput'[t]) = memory[t]]_vars

C6_Witness ==
    \E t \in Threads :
        /\ pc[t] = "done"
        /\ Cardinality(HumanTurns(memory[t])) >= 2
        /\ Len(llmInput[t]) > Len(memory[t]) - 1

\* no request of an assistant turn is without its result
AllResolved(messages) ==
    \A i \in AiTurns(messages) :
        \A k \in 1..Len(messages[i].tool_calls) :
            Cardinality(ResultsOf(messages, i, messages[i].tool_calls[k].id)) = 1

\* C7: whenever the reasoning step is invoked, every request of every earlier
\* assistant turn has exactly one tool turn with its invocation identifier,
\* after that assistant turn and before the next one.
C7_BatchJoin ==
    \A t \in Threads : AllResolved(llmInput[t])

(***************************************************************************)
(* Favorites: claims C8 to C10.                                            *)
(***************************************************************************)
\* the documents with another (property_id, user_id), in order
Others(coll, property_id, user_id) ==
    SelectSeq(coll, LAMBDA d : ~(d.property_id = property_id /\ d.user_id = user_id))

\* a call of the named tool returns in this step, the store having answered
Returned(op) == favCalls' = favCalls + 1 /\ lastOp'.op = op /\ lastOp'.up

\* C8: a save for (p, u) that finds no record reports success and appends one
\* record with the call's note and priority and the current time; a save that
\* finds a record reports warning and leaves the store as it is; so of two
\* saves for (p, u) in sequence the first reports success, the second reports
\* warning and changes nothing, and one record for (p, u) is stored.
C8_DuplicateSave ==
    [][Returned("save") =>
          LET p == lastOp'.property_id
              u == lastOp'.user_id
          IN  /\ Matching(favorites, p, u) = {} =>
                     /\ lastOp'.status = "success"
                     /\ favorites' = Append(favorites,
                            FavoriteProperty(p, u, clock, lastOp'.notes,
                                             lastOp'.priority))
              /\ Matching(favorites, p, u) # {} =>
                     /\ lastOp'.status = "warning"
                     /\ favorites' = favorites
              /\ Cardinality(Matching(favorites', p, u)) = 1
              /\ (/\ lastOp.op = "save" /\ lastOp.status = "success"
                  /\ lastOp.property_id = p /\ lastOp.user_id = u) =>
                     /\ lastOp'.status = "warning"
                     /\ favorites' = favorites]_vars

C8_Witness ==
    /\ lastOp.op = "save" /\ lastOp.status = "warning" /\ lastOp.up
    /\ \E i \in Matching(favorites, lastOp.property_id, lastOp.user_id) :
           /\ favorites[i].notes # lastOp.notes
           /\ favorites[i].priority # lastOp.priority
           /\ favorites[i].saved_at < clock

\* C9: with sessions calling save and remove at the same time, the favorites
\* collection never holds two records for one (property_id, user_id).
C9_UniqueUnderConcurrency ==
    \A p \in PropertyIds, u \in UserIds : Cardinality(Matching(favorites, p, u)) <= 1

\* C10: a remove for (p, u) that finds a record reports success, deletes it
\* and leaves the records of every other key as they are; one that finds none
\* reports warning and leaves the store as it is.
C10_Remove ==
    [][Returned("remove") =>
          LET p == lastOp'.property_id
              u == lastOp'.user_id
          IN  IF Matching(favorites, p, u) # {}
              THEN /\ lastOp'.status = "success"
                   /\ Matching(favorites', p, u) = {}
                   /\ Len(favorites') = Len(favorites) - 1
                   /\ Others(favorites', p, u) = Others(favorites, p, u)
              ELSE /\ lastOp'.status = "warning"
                   /\ favorites' = favorites]_vars

C10_Witness ==
    /\ lastOp.op = "remove" /\ lastOp.status = "success" /\ lastOp.up
    /\ favorites # <<>>

(***************************************************************************)
(* The stores' tools: claims C11 and C12.                                  *)
(***************************************************************************)
\* C11: after any sequence of preference saves, the record retrievable for a
\* user u is exactly the payload of the last save made for u, every field of
\* it, and a save made for another user leaves u's record as it was (absent
\* as long as nothing was saved for u).
C11_PerUserLastWriteWins ==
    \A u \in Customers :
        IF lastSaved[u] = <<>> THEN preferences[u] = <<>>
        ELSE /\ preferences[u] # <<>>
             /\ preferences[u][1].preferences = asdict(lastSaved[u][1])

\* what each store operation reports when the store did not answer
ReportsFailure ==
    /\ (lastOp.op # "none" /\ ~lastOp.up) => lastOp.status = "error"
    /\ (lastPref.payload # "none" /\ ~lastPref.up) => lastPref.status = "error"
    /\ (lastRead.op = "list" /\ ~lastRead.up) => lastRead.status = "error"
    /\ (lastRead.op = "summary" /\ ~lastRead.up) =>
           lastRead.text = "Failed to get favorites summary"

\* C12: with the store unreachable every store operation (save, list,
\* remove and summary of favorites, save of preferences) returns a result
\* that reports the error, never a success or an empty record, and the
\* stored records stay as they were.
C12_StoreFailureIsAValue ==
    [][ /\ favorites' # favorites => lastOp'.up
        /\ preferences' # preferences => lastPref'.up
        /\ ReportsFailure' ]_vars

(***************************************************************************)
(* Catalog query: claims C13 and C14.                                      *)
(***************************************************************************)
\* the feature names the catalog knows
Recognised == {"parking", "balcony", "garden", "security", "gym", "pool", "elevator"}

\* the filter predicates that criteria c sets, on property p
Satisfies(p, c) ==
    /\ c.property_type # <<>> =>
           IsSubstring(Lower(Chars(c.property_type[1])), Lower(Chars(p.property_type)))
    /\ (c.locations # <<>> /\ c.locations[1] # <<>>) =>
           \E l \in Elements(c.locations[1]) :
               \/ IsSubstring(Lower(Chars(l)), Lower(Chars(p.city)))
               \/ IsSubstring(Lower(Chars(l)), Lower(Chars(p.area)))
    /\ c.min_price # <<>> => p.price_crores >= c.min_price[1]
    /\ c.max_price # <<>> => p.price_crores <= c.max_price[1]
    /\ c.min_bedrooms # <<>> => p.bedrooms >= c.min_bedrooms[1]
    /\ c.max_bedrooms # <<>> => p.bedrooms <= c.max_bedrooms[1]
    /\ c.min_bathrooms # <<>> => p.bathrooms >= c.min_bathrooms[1]
    /\ c.must_have_features # <<>> =>
           \A f \in Elements(c.must_have_features[1]) : \A r \in Recognised :
               Lower(Chars(f)) = Chars(r) => p.features[r]

\* C13: for every criteria and catalog, total_found is the length of the
\* returned list, and every returned property is available and satisfies
\* every predicate the criteria set: type substring, any of the locations in
\* city or area (a location list with entries), price and bedroom bounds,
\* minimum bathrooms, all recognised required features.
C13_SearchSound ==
    found # <<>> =>
        /\ found.total_found = Len(found.properties)
        /\ found.search_criteria = search_criteria
        /\ \A i \in 1..Len(found.properties) :
               /\ found.properties[i].available
               /\ found.properties[i] \in Elements(catalog)
               /\ Satisfies(found.properties[i], search_criteria)

\* a search with a type, a location, a price ceiling and a required feature
\* written in capitals that returns something and leaves something out
C13_Witness ==
    /\ found # <<>>
    /\ search_criteria.property_type # <<>>
    /\ search_criteria.locations # <<>>
    /\ search_criteria.locations[1] # <<>>
    /\ search_criteria.must_have_features # <<>>
    /\ "Parking" \in Elements(search_criteria.must_have_features[1])
    /\ found.total_found > 0
    /\ found.total_found < Len(catalog)

\* the statement of C14 as written: a field set, a location added or a
\* required feature added never gives more results than before
C14_AnyAdditionNarrows ==
    (found # <<>> /\ narrowed.how \in {"field", "location", "feature"}) =>
        found.total_found <= narrowed.before

\* C14: with the result cap unchanged, setting a field that was unset or
\* adding an entry to the required-feature list never gives more results
\* than the criteria before.
C14_Monotonic ==
    (found # <<>> /\ narrowed.how \in {"field", "feature"}) =>
        found.total_found <= narrowed.before

\* a required feature added to a list that already had one, with fewer
\* results than before
C14_Witness ==
    /\ found # <<>>
    /\ narrowed.how = "feature"
    /\ Len(search_criteria.must_have_features[1]) >= 2
    /\ found.total_found < narrowed.before

(***************************************************************************)
(* Refinement: claims C15 to C18.                                          *)
(***************************************************************************)
TablePhrases ==
    PricePhrasesDown \cup PricePhrasesUp \cup BedroomPhrasesMore
        \cup BedroomPhrasesFewer \cup LocationPhrases \cup FeaturePhrases("parking")
        \cup FeaturePhrases("balcony") \cup FeaturePhrases("garden")
        \cup ApartmentPhrases \cup HousePhrases

\* for every feedback text, the phrases of the table that are substrings of
\* the lower-cased text
PhrasesIn ==
    [fb \in Feedbacks |->
        { ph \in TablePhrases : IsSubstring(Chars(ph), Lower(Join(fb))) }]

\* the phrases in the lower-cased feedback text of the calls
FeedbackLower == {PhrasesIn[user_feedback]}

\* one of the phrases occurs in the text
Occurs(phrases, present) == phrases \cap present # {}

Recorded(e, text) ==
    \E i \in 1..Len(e.changes_made) : e.changes_made[i].text = text

RecordedValue(e, text, v) ==
    \E i \in 1..Len(e.changes_made) :
        e.changes_made[i].text = text /\ e.changes_made[i].value = <<v>>

\* C15: refine leaves every field of the caller's criteria, the contents of
\* its lists included, as it was before the call, and a second call with the
\* same criteria and feedback returns the same output as the first.
C15_InputNotMutated ==
    /\ \A k \in 1..Len(refined) : refined[k].after = refined[k].before
    /\ (Len(refined) >= 2 /\ refined[2].on = "caller") =>
           /\ refined[2].returned = refined[1].returned
           /\ refined[2].changes_made = refined[1].changes_made
           /\ refined[2].reasoning = refined[1].reasoning

\* the mutation of a phrase class is in the returned criteria and in
\* changes_made
DownApplied(e) ==
    /\ e.returned.max_price # <<>>
    /\ \/ RecordedValue(e, "Reduced max price to", Format1f(e.returned.max_price[1]))
       \/ (Recorded(e, "Set max price to 2.0 crores") /\ e.returned.max_price = <<200>>)
UpApplied(e) ==
    /\ e.returned.max_price # <<>>
    /\ \/ RecordedValue(e, "Increased max price to", Format1f(e.returned.max_price[1]))
       \/ (Recorded(e, "Set max price to 5.0 crores") /\ e.returned.max_price = <<500>>)
MoreApplied(e) ==
    /\ e.returned.min_bedrooms # <<>>
    /\ \/ RecordedValue(e, "Increased min bedrooms to", e.returned.min_bedrooms[1])
       \/ (Recorded(e, "Set min bedrooms to 3") /\ e.returned.min_bedrooms = <<3>>)
FewerApplied(e) ==
    /\ e.returned.min_bedrooms # <<>>
    /\ \/ RecordedValue(e, "Reduced min bedrooms to", e.returned.min_bedrooms[1])
       \/ (Recorded(e, "Set min bedrooms to 1") /\ e.returned.min_bedrooms = <<1>>)
LocationApplied(e) == Recorded(e, "Please specify which areas you'd prefer")
FeatureApplied(e, f) ==
    /\ e.returned.must_have_features # <<>>
    /\ f \in Elements(e.returned.must_have_features[1])
    /\ (e.before.must_have_features = <<>>
           \/ f \notin Elements(e.before.must_have_features[1])) =>
           Recorded(e, FeatureAdded(f))
ApartmentApplied(e) ==
    /\ Recorded(e, "Set property type to apartment")
    /\ e.returned.property_type = <<"apartment">>
HouseApplied(e) ==
    /\ Recorded(e, "Set property type to house")
    /\ e.returned.property_type = <<"house">>

\* the classes that stand alone
SingleClassesApplied(e, fl) ==
    /\ Occurs(LocationPhrases, fl) => LocationApplied(e)
    /\ \A f \in {"parking", "balcony", "garden"} :
           Occurs(FeaturePhrases(f), fl) => FeatureApplied(e, f)

\* the statement of C16 as written: the mutation of every class whose
\* phrase occurs is applied and recorded, whatever else occurs
C16_EveryClassApplied ==
    \A k \in 1..Len(refined), fl \in FeedbackLower :
        /\ Occurs(PricePhrasesDown, fl) => DownApplied(refined[k])
        /\ Occurs(PricePhrasesUp, fl) => UpApplied(refined[k])
        /\ Occurs(BedroomPhrasesMore, fl) => MoreApplied(refined[k])
        /\ Occurs(BedroomPhrasesFewer, fl) => FewerApplied(refined[k])
        /\ Occurs(ApartmentPhrases, fl) => ApartmentApplied(refined[k])
        /\ Occurs(HousePhrases, fl) => HouseApplied(refined[k])
        /\ SingleClassesApplied(refined[k], fl)

\* C16: the mutation of every class whose phrase occurs is applied and
\* recorded, except within the three pairs price down / price up, more /
\* fewer bedrooms and apartment / house: of a pair whose two classes both
\* occur only the first is applied and nothing is recorded for the second.
C16_ClassesApplied ==
    \A k \in 1..Len(refined), fl \in FeedbackLower :
        /\ Occurs(PricePhrasesDown, fl) =>
               /\ DownApplied(refined[k])
               /\ ~Recorded(refined[k], "Increased max price to")
               /\ ~Recorded(refined[k], "Set max price to 5.0 crores")
        /\ (Occurs(PricePhrasesUp, fl) /\ ~Occurs(PricePhrasesDown, fl)) =>
               UpApplied(refined[k])
        /\ Occurs(BedroomPhrasesMore, fl) =>
               /\ MoreApplied(refined[k])
               /\ ~Recorded(refined[k], "Reduced min bedrooms to")
               /\ ~Recorded(refined[k], "Set min bedrooms to 1")
        /\ (Occurs(BedroomPhrasesFewer, fl) /\ ~Occurs(BedroomPhrasesMore, fl)) =>
               FewerApplied(refined[k])
        /\ Occurs(ApartmentPhrases, fl) =>
               /\ ApartmentApplied(refined[k])
               /\ ~Recorded(refined[k], "Set property type to house")
        /\ (Occurs(HousePhrases, fl) /\ ~Occurs(ApartmentPhrases, fl)) =>
               HouseApplied(refined[k])
        /\ SingleClassesApplied(refined[k], fl)

\* feedback with both classes of the price pair, answered with the first
\* applied to a price that was set
C16_Witness ==
    /\ refined # <<>>
    /\ \E fl \in FeedbackLower :
           Occurs(PricePhrasesDown, fl) /\ Occurs(PricePhrasesUp, fl)
    /\ refined[1].before.max_price = <<300>>
    /\ refined[1].returned.max_price = <<240>>

\* C17: for feedback with "too expensive" or "over budget" the returned
\* max price is 0.8 times the input max price when that is set, 0 included,
\* and 2.0 when it is unset, and changes_made has a price entry.
C17_PriceReduction ==
    \A k \in 1..Len(refined), fl \in FeedbackLower :
        Occurs({"too expensive", "over budget"}, fl) =>
            /\ refined[k].returned.max_price # <<>>
            /\ IF refined[k].before.max_price # <<>>
               THEN \* compared where 0.8 times the price is a whole number of
                    \* hundredths
                    (8 * refined[k].before.max_price[1]) % 10 = 0 =>
                        10 * refined[k].returned.max_price[1]
                            = 8 * refined[k].before.max_price[1]
               ELSE refined[k].returned.max_price = <<200>>
            /\ \/ Recorded(refined[k], "Reduced max price to")
               \/ Recorded(refined[k], "Set max price to 2.0 crores")

\* C18: for feedback with none of the table's phrases the returned criteria
\* equal the input field by field, changes_made is empty and the reasoning
\* asks what to change.
C18_NoMatch ==
    \A k \in 1..Len(refined), fl \in FeedbackLower :
        ~Occurs(TablePhrases, fl) =>
            /\ refined[k].returned = refined[k].before
            /\ refined[k].changes_made = <<>>
            /\ refined[k].reasoning.text =
                   "Could you tell me what specific changes you'd like to make?"

\* a call answered for a feedback text that says something, nothing of the
\* table, on criteria with fields set
C18_Witness ==
    /\ refined # <<>>
    /\ user_feedback # <<>>
    /\ \A fl \in FeedbackLower : ~Occurs(TablePhrases, fl)
    /\ refined[1].before.max_price # <<>>
    /\ refined[1].before.must_have_features # <<>>

(***************************************************************************)
(* Intent classification: claim C19.                                       *)
(***************************************************************************)
\* the keywords of a label
KeywordsOf(label) ==
    CASE label = "buy" -> Elements(buy_keywords)
      [] label = "sell" -> Elements(sell_keywords)
      [] label = "rent" -> Elements(rent_keywords)
      [] label = "general_info" -> Elements(info_keywords)

\* how many keywords of the label occur in the text
Count(label, text) ==
    Cardinality({ k \in KeywordsOf(label) : IsSubstring(Chars(k), text) })

\* C19: the label is unknown, with confidence 0, exactly when no keyword of
\* any set occurs in the lower-cased text; otherwise it is the label with
\* the largest count (the number of the label's keywords that occur), the
\* first in the order buy, sell, rent, general_info among equals, and the
\* confidence is above 0 and at most 1.
C19_IntentLabel ==
    intent # <<>> =>
        \A text \in {Lower(Spaced(user_message))} :
            LET none == \A i \in 1..4 : Count(IntentOrder[i], text) = 0
                r == intent[1]
            IN  /\ (r.intent = "unknown") <=> none
                /\ none => r.confidence.num = 0
                /\ ~none =>
                       \E i \in 1..4 :
                           /\ r.intent = IntentOrder[i]
                           /\ \A j \in 1..4 :
                                  Count(IntentOrder[j], text) <= Count(IntentOrder[i], text)
                           /\ \A j \in 1..(i - 1) :
                                  Count(IntentOrder[j], text) < Count(IntentOrder[i], text)
                           /\ r.confidence.num > 0
                           /\ r.confidence.num <= r.confidence.den

\* a message in which sell and rent keywords occur equally often and no
\* buy keyword, classified as sell
C19_Witness ==
    /\ intent # <<>>
    /\ intent[1].intent = "sell"
    /\ \E text \in {Lower(Spaced(user_message))} :
           /\ Count("sell", text) = Count("rent", text)
           /\ Count("buy", text) < Count("sell", text)

(***************************************************************************)
(* Failures of the collaborators: claim C20.                               *)
(***************************************************************************)
\* C20: whatever the reasoning step and the tools do, no call of
\* process_message ends in a raised failure, and every call that has
\* returned has answered with a terminal assistant message.
C20_AlwaysConversationalText ==
    \A t \in Threads :
        /\ pc[t] # "raised"
        /\ pc[t] = "done" =>
               /\ response[t] # <<>>
               /\ response[t][1].type = "ai"
               /\ response[t][1].tool_calls = <<>>

(***************************************************************************)
(* Sessions: claim C21.                                                    *)
(***************************************************************************)
\* the threads on which a step acts
Acting == { t \in Threads : pc'[t] # pc[t] \/ step'[t] # step[t] }

\* C21: every step of any interleaving of process_message calls acts on one
\* session and leaves the checkpointed history and stage of every other
\* session as they were, and every turn it adds to a session's history is
\* produced by the call on that session; a call without thread_id starts on a session
\* that had no history and changes no other session.
C21_SessionIsolation ==
    [][/\ Cardinality(Acting) <= 1
       /\ \A a \in Threads \ Acting :
              memory'[a] = memory[a] /\ stage'[a] = stage[a]
       /\ \A a \in Acting : \A i \in 1..Len(memory'[a]) :
              (i > Len(memory[a]) \/ memory'[a][i] # memory[a][i]) =>
                  memory'[a][i].id[1] = a
       /\ (\E t \in Acting : pc[t] # "chatbot" /\ pc'[t] = "chatbot") =>
              \A text \in Texts :
                  ProcessMessage(0, text) =>
                      \E u \in UuidThreads :
                          /\ memory[u] = <<>>
                          /\ memory'[u] # <<>>
                          /\ \A a \in Threads \ {u} :
                                 memory'[a] = memory[a] /\ stage'[a] = stage[a]]_vars

\* a call without thread_id has run to its answer while a call on a named
\* session, which has a history, is in the middle of its turn
C21_Witness ==
    \E a \in NamedThreads, u \in UuidThreads :
        /\ memory[a] # <<>>
        /\ pc[a] \in {"chatbot", "tools"}
        /\ memory[u] # <<>>
        /\ pc[u] = "done"

(***************************************************************************)
(* Intent scores: claim C22.                                               *)
(***************************************************************************)
\* the keyword list of a label
KeywordList(label) ==
    CASE label = "buy" -> buy_keywords
      [] label = "sell" -> sell_keywords
      [] label = "rent" -> rent_keywords
      [] label = "general_info" -> info_keywords

Labels == Elements(IntentOrder)

\* the confidence returned is the largest of the given counts divided by
\* their sum, when the sum is not zero
ConfidenceFrom(count) ==
    LET sum == count["buy"] + count["sell"] + count["rent"] + count["general_info"]
    IN  sum # 0 =>
            \E l \in Labels :
                /\ \A m \in Labels : count[m] <= count[l]
                /\ intent[1].confidence.num * sum = count[l] * intent[1].confidence.den

\* C22 as stated: each label's score is the number of occurrences of its
\* keywords in the lower-cased text, every occurrence counting once, and the
\* confidence is the largest score divided by the sum of the four.
C22_ScoreCountsOccurrences ==
    intent # <<>> =>
        \A text \in {Lower(Spaced(user_message))} :
            \A count \in {[l \in Labels |-> ScoreOccurrences(KeywordList(l), text)]} :
                /\ \A l \in Labels : keyword_scores[1][l] = count[l]
                /\ ConfidenceFrom(count)

\* C22, amended: each label's score is the number of its keywords that occur
\* at least once in the lower-cased text (a keyword occurring twice adds 1;
\* a keyword inside another, such as "need" in "i need", counts as well as
\* the longer one), and the confidence is the largest score divided by the
\* sum of the four whenever the sum is not zero.
C22_ScoreCountsKeywords ==
    intent # <<>> =>
        \A text \in {Lower(Spaced(user_message))} :
            \A count \in {[l \in Labels |-> Count(l, text)]} :
                /\ \A l \in Labels : keyword_scores[1][l] = count[l]
                /\ ConfidenceFrom(count)

\* a classified message in which the keyword "rent" occurs twice and "i need"
\* brings both "need" and "i need"
C22_Witness ==
    /\ intent # <<>>
    /\ \E text \in {Lower(Spaced(user_message))} :
           /\ Occurrences(Chars("rent"), text) = 2
           /\ IsSubstring(Chars("i need"), text)
           /\ keyword_scores[1]["rent"] = 1
           /\ keyword_scores[1]["buy"] = 2

(***************************************************************************)
(* Refinement, feature additions: claim C23.                               *)
(***************************************************************************)
Features3 == {"parking", "balcony", "garden"}

\* the list of an Optional list field, None read as the empty list
ListOf(opt) == IF opt = <<>> THEN <<>> ELSE opt[1]

\* C23: for every feature whose "need" or "must have" phrase is in the
\* feedback, the returned required-feature list holds the feature exactly
\* once and starts with the entries of the input list in their order; a call
\* with the same feedback on the criteria just returned returns the same
\* list and records no feature addition.
C23_FeatureAdditionIdempotent ==
    \A k \in 1..Len(refined), fl \in FeedbackLower :
        \A f \in { g \in Features3 : Occurs(FeaturePhrases(g), fl) } :
            LET in == ListOf(refined[k].before.must_have_features)
                out == ListOf(refined[k].returned.must_have_features)
            IN  /\ Cardinality({ i \in 1..Len(out) : out[i] = f }) = 1
                /\ Len(in) <= Len(out)
                /\ SubSeq(out, 1, Len(in)) = in
                /\ (k > 1 /\ refined[k].on = "returned") =>
                       /\ out = ListOf(refined[k - 1].returned.must_have_features)
                       /\ \A g \in Features3 : ~Recorded(refined[k], FeatureAdded(g))

\* "need parking" on a list holding balcony: parking is added by the first
\* call, and the call on the returned criteria has been made
C23_Witness ==
    /\ Len(refined) >= 2
    /\ refined[2].on = "returned"
    /\ \E fl \in FeedbackLower : Occurs(FeaturePhrases("parking"), fl)
    /\ refined[1].before.must_have_features = << <<"balcony">> >>
    /\ Recorded(refined[1], FeatureAdded("parking"))
    /\ refined[2].returned.must_have_features = << <<"balcony", "parking">> >>

(***************************************************************************)
(* The conversation stage: claim C24.                                      *)
(***************************************************************************)
\* C24: a process_message call first sets the session's stage to greeting,
\* every reasoning step sets it to needs_assessment, so a session whose call
\* has returned has the stage needs_assessment; a session with a history
\* has one of these two stages and no other of the enumeration; and where
\* the loop goes after a reasoning step depends on the history alone, the
\* same under either stage.
C24_StageAfterTurn ==
    [][\A t \in Threads :
          /\ (pc[t] \in {"idle", "done", "raised"} /\ pc'[t] = "chatbot") =>
                 stage'[t] = "greeting"
          /\ (pc[t] = "chatbot" /\ step'[t] = step[t] + 1) =>
                 /\ stage[t] \in {"greeting", "needs_assessment"}
                 /\ stage'[t] = "needs_assessment"
                 /\ pc'[t] = IF Len(Last(memory'[t]).tool_calls) > 0
                              THEN "tools" ELSE "done"
          /\ pc'[t] = "done" => stage'[t] = "needs_assessment"
          /\ memory'[t] # <<>> =>
                 /\ stage'[t] \in ConversationStage
                 /\ stage'[t] \in {"greeting", "needs_assessment"}]_vars

\* a session on its second message, answered after a tool round: the stage
\* went to greeting again and is back at needs_assessment
C24_Witness ==
    \E t \in Threads :
        /\ pc[t] = "done"
        /\ stage[t] = "needs_assessment"
        /\ Cardinality(HumanTurns(memory[t])) = 2
        /\ ToolTurns(memory[t]) # {}

(***************************************************************************)
(* Shape of a search result: claim C25.                                    *)
(***************************************************************************)
\* the available properties of the catalog that satisfy the criteria, in
\* catalog order
FullMatch == SelectSeq(catalog, LAMBDA p : p.available /\ Satisfies(p, search_criteria))

\* the positions in the catalog of the returned properties
Positions ==
    [i \in 1..Len(found.properties) |->
        CHOOSE j \in 1..Len(catalog) : catalog[j] = found.properties[i]]

\* C25: with a result cap of 0 or more, the returned list is made of catalog
\* properties in catalog order, none twice, is no longer than the cap, and is
\* the first max_results of the available properties that satisfy the
\* criteria; total_found counts the list after the cut.
C25_ResultShape ==
    (found # <<>> /\ search_criteria.max_results >= 0) =>
        \E full \in {FullMatch} :
            /\ \A i \in 1..Len(found.properties) :
                   found.properties[i] \in Elements(catalog)
            /\ \A i, j \in 1..Len(found.properties) :
                   i < j => Positions[i] < Positions[j]
            /\ Len(found.properties) <= search_criteria.max_results
            /\ Len(found.properties) =
                   IF Len(full) < search_criteria.max_results
                   THEN Len(full) ELSE search_criteria.max_results
            /\ found.properties = SubSeq(full, 1, Len(found.properties))
            /\ found.total_found = Len(found.properties)

\* a search with a constraint set whose cap of 1 cuts a longer list of
\* matching properties
C25_Witness ==
    /\ found # <<>>
    /\ search_criteria.max_results = 1
    /\ \E f \in Fields : search_criteria[f] # <<>>
    /\ Len(FullMatch) >= 2
    /\ found.total_found = 1

====
